---- MODULE Spec2Model ----
(***************************************************************************)
(* The image-generation path of clips-generator:                           *)
(*   tools/generate.py   run_generation    (the orchestrator)              *)
(*   backends/comfyui.py ComfyUIClient     (probe, enqueue, poll, download)*)
(* against a ComfyUI backend that answers every request in any way an HTTP *)
(* server can.  One action is one awaited request of the coroutine plus    *)
(* the synchronous code that runs until the next await.                    *)
(*                                                                         *)
(* Each further component has its own variables and its own specification; *)
(* while one component runs, the variables of the others stay as they are. *)
(*   shared/models.py    resolve_dimensions, and the width and height that *)
(*                       run_generation writes into graphs and records     *)
(*   genAudio/backends/chatterbox.py  get_model, called from the threads   *)
(*                       of the executor and from the event loop           *)
(*   tools/info.py       image_gen_list and a client that pages through it *)
(*   genImages/rest_api.py, genAudio/rest_api.py  the POST /generate       *)
(*                       handlers, from the body to the response, and the  *)
(*                       generate tools on texts around the maximum length *)
(*   backends/comfyui.py download_image and the directory it writes to     *)
(*   genImages/rest_api.py, genAudio/rest_api.py  the GET /health handlers *)
(***************************************************************************)
EXTENDS Integers, Sequences, FiniteSets, TLC

VARIABLES
    entry,             \* "generate": ComfyUIClient.generate called alone; "run_generation"
    params,            \* GenerateImageInput: batch_size, seed (<<>> is None)
    timeout,           \* ComfyUIClient._timeout
    pc,                \* the await the coroutine is suspended at
    seed,              \* run_generation: the resolved seed (two 16-bit limbs)
    i,                 \* run_generation: the batch loop index
    prompt_id,         \* generate: the job handle, <<>> while there is none
    attempt,           \* _poll_until_done: the loop variable
    filenames,         \* run_generation: what client.generate returned
    k,                 \* run_generation: index of the filename being downloaded
    generated_images,  \* run_generation: the records appended so far
    gen,               \* the state of the current client.generate call
    result,            \* what run_generation returned
    files,             \* filenames present in settings.output_dir
    net,               \* the requests the backend has seen in this run
    call               \* what the backend has seen of the running _poll_until_done

generation_vars ==
    <<entry, params, timeout, pc, seed, i, prompt_id, attempt, filenames, k,
      generated_images, gen, result, files, net, call>>

(* run_generation, as far as the image dimensions go *)
VARIABLES
    request,           \* GenerateImageInput: aspect_ratio, width, height (<<>> is None), batch_size
    defaults,          \* settings.default_width, settings.default_height
    dpc,               \* where run_generation is
    width,             \* run_generation: the resolved width, 0 before line 93
    height,            \* run_generation: the resolved height
    batch_index,       \* the batch loop index
    pending,           \* filenames of the current item not yet downloaded
    workflows,         \* the graphs built so far: their width and height
    records            \* the GeneratedImage records appended so far: their width and height

dimension_vars == <<request, defaults, dpc, width, height, batch_index, pending, workflows, records>>

(* genAudio/backends/chatterbox.py: the process and the threads in get_model *)
VARIABLES
    device,            \* what get_model computes as device: "cpu" or "cuda"
    installed,         \* whether chatterbox.mtl_tts can be imported
    _model,            \* the module global: 0 is None, n the model of the n-th load
    torch_load,        \* torch.load: <<>> the original, <<t>> \o f thread t's wrapper of f
    loads,             \* calls of ChatterboxMultilingualTTS.from_pretrained so far
    callers            \* per thread: where it is in get_model, its locals, what it got

model_vars == <<device, installed, _model, torch_load, loads, callers>>

(* tools/info.py: image_gen_list and its caller *)
VARIABLES
    output_dir,        \* settings.output_dir: whether it exists, its entries in iterdir order
    limit,             \* the caller's page size
    asked_offset,      \* the offset of the last call
    lpc,               \* "start", "paging" (following next_offset), "listed" (one call made)
    response,          \* the last answer of image_gen_list, <<>> before the first
    visited            \* the filenames the paging caller has received, in order

list_vars == <<output_dir, limit, asked_offset, lpc, response, visited>>

(* rest_api.py (genImages and genAudio): one POST /generate *)
VARIABLES
    surface,           \* "image" or "audio": whose handler runs
    body,              \* what request.json() finds
    rpc,               \* "received", "generating" (awaiting the orchestrator), "done"
    passed,            \* the arguments given to run_generation / generate_audio, <<>>: not called
    outcome,           \* "ok" / "failed": how the generation ended, "" before
    http,              \* the JSONResponse returned, <<>> while there is none
    unhandled          \* the exception that left the handler, "" if none

rest_vars == <<surface, body, rpc, passed, outcome, http, unhandled>>

(* backends/comfyui.py: one download_image(filename, dest_dir) on its own *)
VARIABLES
    dest_dir,          \* the directory: whether it exists, per name the bytes of its file (0: no file)
    dest_before,       \* dest_dir as it was when download_image was called
    dl_filename,       \* the filename argument
    dlpc,              \* "start", "view" (awaiting GET /view), "done"
    view_response,     \* the answer to GET /view, NoViewResponse before
    dl_outcome         \* <<>>, or what the call returned (a path) or raised

download_vars == <<dest_dir, dest_before, dl_filename, dlpc, view_response, dl_outcome>>

(* rest_api.py (genImages and genAudio): GET /health *)
VARIABLES
    service,           \* "image" or "audio": whose health handler runs
    hpc,               \* "start", "probe" / "inventory" (awaiting the answer), "done"
    stats,             \* the answer to GET /system_stats of this request
    object_info,       \* the answer to GET /object_info/CheckpointLoaderSimple
    got_model,         \* audio: what get_model did, <<>> before
    health_response,   \* the JSONResponse returned, <<>> while there is none
    answered           \* requests answered so far

health_vars == <<service, hpc, stats, object_info, got_model, health_response, answered>>

vars == <<generation_vars, dimension_vars, model_vars, list_vars, rest_vars, download_vars,
          health_vars>>

(* what a step of one component leaves alone *)
other_than_generation ==
    <<dimension_vars, model_vars, list_vars, rest_vars, download_vars, health_vars>>
other_than_dimensions ==
    <<generation_vars, model_vars, list_vars, rest_vars, download_vars, health_vars>>
other_than_model ==
    <<generation_vars, dimension_vars, list_vars, rest_vars, download_vars, health_vars>>
other_than_list ==
    <<generation_vars, dimension_vars, model_vars, rest_vars, download_vars, health_vars>>
other_than_download ==
    <<generation_vars, dimension_vars, model_vars, list_vars, rest_vars, health_vars>>
other_than_health ==
    <<generation_vars, dimension_vars, list_vars, rest_vars, download_vars>>
other_than_rest ==
    <<generation_vars, dimension_vars, model_vars, list_vars, download_vars, health_vars>>

----------------------------------------------------------------------------
(* Bounds of the model *)

MaxTimeout == 3        \* generate alone: client timeouts 0..MaxTimeout seconds
MaxBatchTimeout == 2   \* run_generation: settings.comfyui_timeout in 1..MaxBatchTimeout
MaxNodes == 2          \* output nodes in one history entry (generate alone)
MaxImages == 1         \* image entries of one output node, when there are several nodes
MaxJobImages == 2      \* image entries of a job's output node, when it is the only one
DimSpan == 1           \* widths and heights tried: this far from both ends of their range
MaxThreads == 2        \* threads that call get_model
MaxCalls == 2          \* calls of get_model by one thread
MaxFiles == 25         \* image files in the output directory
MaxOther == 1          \* other files in the output directory
MaxLimit == 20         \* page sizes tried: 1..MaxLimit
MaxNames == 2          \* filenames in the download directory: 1..MaxNames
MaxBytes == 2          \* file contents: 1..MaxBytes
MaxOver == 2           \* characters past the maximum length: texts of max-1 .. max+MaxOver
MaxCheckpoints == 6    \* checkpoint names in the inventory: 0..MaxCheckpoints
MaxRequests == 2       \* GET /health requests answered in a run

(* Program constants *)

POLL_INTERVAL_SEC == 1
MinBatchSize == 1
MaxBatchSize == 4
SeedBits == 32
DimMin == 256          \* GenerateImageInput.width / height, Settings.default_width / height: ge
DimMax == 4096         \* the same fields: le
DimMultiple == 64      \* resolve_dimensions: FLUX.1 wants multiples of 64
LimitMin == 1          \* ListGeneratedImagesInput.limit: ge
LimitMax == 100        \* ListGeneratedImagesInput.limit: le
OffsetMin == 0         \* ListGeneratedImagesInput.offset: ge
PromptMin == 3         \* genImages/rest_api.py: len(prompt) < 3
PromptMax == 2000      \* genImages/rest_api.py: prompt[:2000]
TextMin == 1           \* genAudio/rest_api.py: len(text) < 1
TextMax == 5000        \* genAudio/rest_api.py: text[:5000]
Centi == 100           \* a float of a request is held in hundredths
StepsMin == 1          \* GenerateImageInput.steps: ge
StepsMax == 50         \* GenerateImageInput.steps: le
StepsDefault == 8      \* genImages/rest_api.py: steps when the body has none
GuidanceMin == 0       \* GenerateImageInput.guidance_scale: ge
GuidanceMax == 20      \* GenerateImageInput.guidance_scale: le
GuidanceDefault == 4   \* genImages/rest_api.py: guidance_scale when the body has none

----------------------------------------------------------------------------
(* Helpers *)

Max(a, b) == IF a >= b THEN a ELSE b
Min(a, b) == IF a <= b THEN a ELSE b

SeqsUpTo(S, n) == UNION {[1..m -> S] : m \in 0..n}

Range(s) == {s[j] : j \in 1..Len(s)}

(* A seed is a Python int; the model holds it as two limbs <<hi, lo>> of     *)
(* base 2^16 so that values up to and beyond 2^32 - 1 stay exact.            *)
LimbBase == 2^(SeedBits \div 2)
SeedMax == <<LimbBase - 1, LimbBase - 1>>
SeedAdd(s, n) == <<s[1] + ((s[2] + n) \div LimbBase), (s[2] + n) % LimbBase>>

----------------------------------------------------------------------------
(* Exceptions and what the backend can answer *)

NoExc == [type |-> "none", what |-> "none", status |-> 0, excerpt |-> 0]
Exc(type, what, status, excerpt) ==
    [type |-> type, what |-> what, status |-> status, excerpt |-> excerpt]

ComfyUIUnavailableError == Exc("ComfyUIUnavailableError", "no_responde", 0, 0)
ComfyUIGenerationError(what, status, excerpt) ==
    Exc("ComfyUIGenerationError", what, status, excerpt)

(* httpx exceptions a request can raise; TimeoutException stands for its     *)
(* subclasses, ReadError for the transport errors that are neither.          *)
TransportExcs == {"ConnectError", "TimeoutException", "ReadError"}
(* what response.json() raises on a body that is not JSON *)
PayloadExcs == {"JSONDecodeError"}
StatusCodes == {200, 302, 500}
ProbeStatusCodes == StatusCodes \cup {204}
TextLens == {0, 300}
Tags == {"output", "temp"}
JobStatuses == {"ok", "error"}

ProbeResponses ==
    {[exc |-> e, status |-> 0] : e \in TransportExcs}
    \cup {[exc |-> "none", status |-> s] : s \in ProbeStatusCodes}

(* POST /prompt: an error page of some length, or an accepted answer with   *)
(* or without the "prompt_id" key                                           *)
PostResponses ==
    {[exc |-> e, status |-> 0, text_len |-> 0, has_prompt_id |-> FALSE] : e \in TransportExcs}
    \cup {[exc |-> "none", status |-> s, text_len |-> t, has_prompt_id |-> FALSE] :
            s \in StatusCodes \ {200}, t \in TextLens}
    \cup {[exc |-> "none", status |-> 200, text_len |-> 300, has_prompt_id |-> p] :
            p \in BOOLEAN}

(* The image entries of output node n; a backend filename is unique.         *)
NodeOutput(tags, n) ==
    [images |-> [j \in 1..Len(tags) |-> [type |-> tags[j], filename |-> 10 * n + j]]]

Outputs(maxNodes, maxImages) ==
    {[n \in 1..Len(t) |-> NodeOutput(t[n], n)] :
        t \in SeqsUpTo(SeqsUpTo(Tags, maxImages), maxNodes)}

(* GET /history/{prompt_id}: present says whether the answer has the job id, *)
(* job_status whether its entry has a status ("missing": it has none, the    *)
(* entry is empty) and whether that status has an error                      *)
HistoryResponses(maxNodes, maxImages) ==
    {[exc |-> e, status |-> 0, present |-> FALSE, job_status |-> "missing", outputs |-> <<>>] :
        e \in TransportExcs \cup PayloadExcs}
    \cup {[exc |-> "none", status |-> s, present |-> FALSE, job_status |-> "missing",
           outputs |-> <<>>] : s \in StatusCodes}
    \cup {[exc |-> "none", status |-> 200, present |-> TRUE, job_status |-> "missing",
           outputs |-> <<>>]}
    \cup {[exc |-> "none", status |-> 200, present |-> TRUE, job_status |-> js, outputs |-> o] :
            js \in JobStatuses, o \in Outputs(maxNodes, maxImages)}

(* generate alone: any workflow, so any number of output nodes *)
ClientHistoryResponses ==
    HistoryResponses(MaxNodes, MaxImages) \cup HistoryResponses(1, MaxJobImages)

(* run_generation submits build_flux_workflow's graph, whose only output     *)
(* node is "8" (SaveImage): its history entry has at most that node          *)
BatchHistoryResponses == HistoryResponses(1, MaxJobImages)

ViewResponses ==
    {[exc |-> e, status |-> 0] : e \in TransportExcs}
    \cup {[exc |-> "none", status |-> s] : s \in StatusCodes}

(* Not yet asked *)
NoProbeResponse == [exc |-> "none", status |-> 0]
NoPostResponse == [exc |-> "none", status |-> 0, text_len |-> 0, has_prompt_id |-> FALSE]
NoResponse ==
    [exc |-> "none", status |-> 0, present |-> FALSE, job_status |-> "missing", outputs |-> <<>>]

(* What an answer is, seen from the backend's side: the words the claims    *)
(* use for what the simulated backend did                                   *)
HasOutputImage(resp) ==
    \E n \in 1..Len(resp.outputs) : \E j \in 1..Len(resp.outputs[n].images) :
        resp.outputs[n].images[j].type = "output"
Answered(resp) == resp.exc = "none" /\ resp.status \in 200..299
JobAbsent(resp) == Answered(resp) /\ ~resp.present
JobError(resp) == Answered(resp) /\ resp.present /\ resp.job_status = "error"
JobSucceeded(resp) ==
    Answered(resp) /\ resp.present /\ resp.job_status # "error" /\ HasOutputImage(resp)
JobPending(resp) ==
    Answered(resp) /\ resp.present /\ resp.job_status # "error" /\ ~HasOutputImage(resp)

----------------------------------------------------------------------------
(* ComfyUIClient: the synchronous code between two awaits, as operators *)

(* Mutant: the floor of one attempt is forgotten *)
max_attempts_no_floor(t) == t \div POLL_INTERVAL_SEC

(* _poll_until_done, line 233 *)
max_attempts(t) == Max(1, t \div POLL_INTERVAL_SEC)

(* httpx.Response.raise_for_status: TRUE when it raises HTTPStatusError *)
raise_for_status(status) == status \notin 200..299

(* Mutant: any answer that is not an error status counts as available *)
is_available_lenient(resp) ==
    [exc   |-> IF resp.exc \in {"none", "ConnectError", "TimeoutException"}
               THEN NoExc ELSE Exc(resp.exc, "system_stats", 0, 0),
     value |-> resp.exc = "none" /\ resp.status < 400]

(* is_available: value is the bool returned, exc what it lets through *)
is_available(resp) ==
    [exc   |-> IF resp.exc \in {"none", "ConnectError", "TimeoutException"}
               THEN NoExc ELSE Exc(resp.exc, "system_stats", 0, 0),
     value |-> resp.exc = "none" /\ resp.status = 200]

(* assert_available: the exception raised, NoExc when it returns *)
assert_available(resp) ==
    LET a == is_available(resp) IN
    IF a.exc # NoExc THEN a.exc
    ELSE IF ~a.value THEN ComfyUIUnavailableError
    ELSE NoExc

(* Mutant: the status of the enqueue answer is not checked *)
enqueue_unchecked(resp) ==
    IF resp.exc # "none" THEN Exc(resp.exc, "prompt", 0, 0)
    ELSE IF ~resp.has_prompt_id THEN Exc("KeyError", "prompt_id", 0, 0)
    ELSE NoExc

(* generate, lines 214-223: the exception raised by the enqueue, NoExc when  *)
(* a prompt_id was read from the answer                                      *)
enqueue(resp) ==
    IF resp.exc # "none" THEN Exc(resp.exc, "prompt", 0, 0)
    ELSE IF raise_for_status(resp.status)
         THEN ComfyUIGenerationError("encolar", resp.status, Min(resp.text_len, 200))
    ELSE IF ~resp.has_prompt_id THEN Exc("KeyError", "prompt_id", 0, 0)
    ELSE NoExc

(* Mutant: the type tag of an image entry is not looked at *)
extract_images_any_type(images) == [j \in 1..Len(images) |-> images[j].filename]

(* _extract_output_filenames: the inner loop over one node's images *)
RECURSIVE extract_images(_)
extract_images(images) ==
    IF images = <<>> THEN <<>>
    ELSE (IF Head(images).type = "output" THEN <<Head(images).filename>> ELSE <<>>)
         \o extract_images(Tail(images))

(* _extract_output_filenames: the outer loop over outputs.values() *)
RECURSIVE _extract_output_filenames(_)
_extract_output_filenames(outputs) ==
    IF outputs = <<>> THEN <<>>
    ELSE extract_images(Head(outputs).images) \o _extract_output_filenames(Tail(outputs))

(* Mutant: the status of the history entry is not looked at *)
has_error_never(job_data) == FALSE

(* "error" in job_data.get("status", {}) *)
has_error(job_data) == job_data.job_status = "error"

(* prompt_id not in history *)
not_in_history(history) == ~history.present

(* Mutant: the status of the history answer is not checked *)
fetch_history_unchecked(resp) ==
    IF resp.exc # "none" THEN Exc(resp.exc, "history", 0, 0) ELSE NoExc

(* _poll_until_done, lines 237-244: the exception of the try block, NoExc   *)
(* when history was read from the answer                                    *)
fetch_history(resp) ==
    IF resp.exc # "none" THEN Exc(resp.exc, "history", 0, 0)
    ELSE IF raise_for_status(resp.status)
         THEN ComfyUIGenerationError("historial", resp.status, 0)
    ELSE NoExc

(* Mutant: the filenames are looked for before the error *)
job_outcome_outputs_first(job_data) ==
    LET fs == _extract_output_filenames(job_data.outputs) IN
    IF fs # <<>> THEN [exc |-> NoExc, done |-> TRUE, filenames |-> fs]
    ELSE IF has_error(job_data)
         THEN [exc |-> ComfyUIGenerationError("reporto_error", 0, 0),
               done |-> FALSE, filenames |-> <<>>]
    ELSE [exc |-> NoExc, done |-> FALSE, filenames |-> <<>>]

(* _poll_until_done, lines 250-260: what the job's entry leads to *)
job_outcome(job_data) ==
    IF has_error(job_data)
    THEN [exc |-> ComfyUIGenerationError("reporto_error", 0, 0),
          done |-> FALSE, filenames |-> <<>>]
    ELSE LET fs == _extract_output_filenames(job_data.outputs) IN
         [exc |-> NoExc, done |-> fs # <<>>, filenames |-> fs]

(* Mutant: a history answer without the job id is taken for a lost job *)
poll_iteration_absent_fails(resp) ==
    IF fetch_history(resp) # NoExc
        THEN [exc |-> fetch_history(resp), done |-> FALSE, filenames |-> <<>>]
    ELSE IF not_in_history(resp)
        THEN [exc |-> ComfyUIGenerationError("reporto_error", 0, 0),
              done |-> FALSE, filenames |-> <<>>]
    ELSE job_outcome(resp)

(* _poll_until_done, lines 237-260: one iteration after its sleep.           *)
(* exc: what it raises; done: it returns filenames; neither: next iteration  *)
poll_iteration(resp) ==
    IF fetch_history(resp) # NoExc
        THEN [exc |-> fetch_history(resp), done |-> FALSE, filenames |-> <<>>]
    ELSE IF not_in_history(resp)
        THEN [exc |-> NoExc, done |-> FALSE, filenames |-> <<>>]
    ELSE job_outcome(resp)

(* Mutant: the loop body starts with the request *)
loop_body_start_busy == "poll"

(* _poll_until_done, line 235: the first await of the loop body is the sleep *)
loop_body_start == "sleep"

(* for attempt in range(max_attempts): is there a next iteration *)
has_next_attempt(a, t) == a + 1 < max_attempts(t)

(* download_image, lines 295-301: the exception raised, NoExc when written *)
download_image(resp) ==
    IF resp.exc # "none" THEN Exc(resp.exc, "view", 0, 0)
    ELSE IF raise_for_status(resp.status)
         THEN ComfyUIGenerationError("descargar", resp.status, 0)
    ELSE NoExc

----------------------------------------------------------------------------
(* run_generation: the synchronous code between two awaits *)

(* Mutant: every item gets the request's seed *)
batch_seed_same(s, item) == s

(* line 102 *)
batch_seed(s, item) == SeedAdd(s, item)

(* line 97: the seed given, else random.randint(0, 2**32 - 1) *)
resolve_seed(given, random) == IF given # <<>> THEN given[1] ELSE random

(* lines 112-117: the GeneratedImage appended for a downloaded file *)
GeneratedImage(filename, s) == [filename |-> filename, seed |-> s]

(* str(exc) and f"{type(exc).__name__}: {exc}" *)
ErrorMessage(prefix, exc) ==
    [prefix |-> prefix, what |-> exc.what, status |-> exc.status, excerpt |-> exc.excerpt]

(* Mutant: the clause for any other Exception is missing, it leaves the call *)
on_exception_comfy_only(exc, images) ==
    IF exc.type \in {"ComfyUIUnavailableError", "ComfyUIGenerationError"}
    THEN [success |-> FALSE, images |-> <<>>, total_generated |-> 0,
          error |-> <<ErrorMessage("", exc)>>]
    ELSE [raised |-> exc]

(* lines 119-123: the two except clauses *)
on_exception(exc, images) ==
    IF exc.type \in {"ComfyUIUnavailableError", "ComfyUIGenerationError"}
    THEN [success |-> FALSE, images |-> <<>>, total_generated |-> 0,
          error |-> <<ErrorMessage("", exc)>>]
    ELSE [success |-> FALSE, images |-> <<>>, total_generated |-> 0,
          error |-> <<ErrorMessage(exc.type, exc)>>]

(* Mutant: the count is that of a single image *)
on_success_counts_one(images) ==
    [success |-> TRUE, images |-> images, total_generated |-> 1, error |-> <<>>]

(* line 118 *)
on_success(images) ==
    [success |-> TRUE, images |-> images, total_generated |-> Len(images), error |-> <<>>]

(* for i in range(params.batch_size): is there a next item *)
has_next_item(item, batch_size) == item + 1 < batch_size

(* Mutant: only the first filename of an item is downloaded *)
has_next_filename_never(n, names) == FALSE

(* for filename in filenames: is there a next filename after the k-th *)
has_next_filename(n, names) == n < Len(names)

----------------------------------------------------------------------------
(* shared/models.py: resolve_dimensions *)

AspectRatios == {"1:1", "16:9", "9:16", "4:3", "21:9", "custom"}

ASPECT_RATIO_DIMENSIONS ==
    [r \in AspectRatios \ {"custom"} |->
        CASE r = "1:1"  -> <<2048, 2048>>
          [] r = "16:9" -> <<3840, 2160>>
          [] r = "9:16" -> <<2160, 3840>>
          [] r = "4:3"  -> <<2560, 1920>>
          [] r = "21:9" -> <<3840, 1600>>]

(* Mutant: rounds up to the next multiple *)
round_down_up(v) == ((v + DimMultiple - 1) \div DimMultiple) * DimMultiple

(* lines 224-225: (w // 64) * 64 *)
round_down(v) == (v \div DimMultiple) * DimMultiple

(* lines 218-219: width or default_width; None and 0 are falsy *)
or_default(given, default) ==
    IF given = <<>> THEN default ELSE IF given[1] = 0 THEN default ELSE given[1]

(* Mutant: the dimensions are passed on as they come *)
resolve_dimensions_as_given(aspect_ratio, w, h, default_width, default_height) ==
    IF aspect_ratio = "custom"
    THEN <<or_default(w, default_width), or_default(h, default_height)>>
    ELSE ASPECT_RATIO_DIMENSIONS[aspect_ratio]

(* lines 209-226 *)
resolve_dimensions(aspect_ratio, w, h, default_width, default_height) ==
    LET wh == IF aspect_ratio = "custom"
              THEN <<or_default(w, default_width), or_default(h, default_height)>>
              ELSE IF aspect_ratio \in DOMAIN ASPECT_RATIO_DIMENSIONS
                   THEN ASPECT_RATIO_DIMENSIONS[aspect_ratio]
                   ELSE <<default_width, default_height>>
    IN <<Max(round_down(wh[1]), DimMultiple), Max(round_down(wh[2]), DimMultiple)>>

(* tools/generate.py, lines 103-108: the width and height of the graph built *)
build_flux_workflow(w, h) == [width |-> w, height |-> h]

(* tools/generate.py, lines 112-117: the width and height of the record *)
image_record(w, h) == [width |-> w, height |-> h]

(* Widths and heights a validated request or the settings can carry: both   *)
(* ends of the range, the two sides of a multiple, and 2160                 *)
DimSamples ==
    (DimMin..(DimMin + DimSpan)) \cup ((DimMax - DimSpan)..DimMax) \cup {319, 320, 2160}

DefaultSamples == {<<3840, 2160>>, <<DimMin + 1, DimMax - 1>>}

NoRequest == [aspect_ratio |-> "1:1", width |-> <<>>, height |-> <<>>, batch_size |-> 0]

DimensionsIdle ==
    /\ request = NoRequest
    /\ defaults = <<0, 0>>
    /\ dpc = "idle"
    /\ width = 0 /\ height = 0
    /\ batch_index = 0 /\ pending = 0
    /\ workflows = <<>> /\ records = <<>>

----------------------------------------------------------------------------
(* genAudio/backends/chatterbox.py: get_model *)

Threads == 1..MaxThreads

(* _orig_torch_load: the thread's saved torch.load; loaded: what its        *)
(* from_pretrained returned (0: nothing, or it raised); returned: per       *)
(* finished call the model it got, 0 where the call raised                  *)
NoCaller == [pc |-> "idle", _orig_torch_load |-> <<>>, loaded |-> 0, returned |-> <<>>]

(* lines 67-69: finally *)
restore_torch_load(dev, current, orig) == IF dev = "cpu" THEN orig ELSE current

(* lines 59-64: on cpu torch.load becomes a wrapper of the saved one *)
patch_torch_load(dev, t, current, orig) == IF dev = "cpu" THEN <<t>> \o orig ELSE current

(* line 38 *)
is_loaded(m) == m # 0

ModelIdle ==
    /\ device = "cpu" /\ installed = TRUE
    /\ _model = 0 /\ torch_load = <<>> /\ loads = 0
    /\ callers = [t \in Threads |-> NoCaller]

----------------------------------------------------------------------------
(* tools/info.py: image_gen_list, JSON format *)

(* An entry of the directory: name, whether its suffix is one of            *)
(* SUPPORTED_EXTENSIONS, st_mtime.  The first `other` entries are not       *)
(* images; the times are distinct and not in iterdir order.                 *)
DirEntry(j, other) == [name |-> j, image |-> j > other, mtime |-> (j * 7) % 31]

Directory(total, other) ==
    [exists |-> TRUE, entries |-> [j \in 1..(total + other) |-> DirEntry(j, other)]]

NoDirectory == [exists |-> FALSE, entries |-> <<>>]

(* line 79: [f for f in output_dir.iterdir() if f.suffix.lower() in ...] *)
RECURSIVE image_entries(_)
image_entries(entries) ==
    IF entries = <<>> THEN <<>>
    ELSE (IF Head(entries).image THEN <<Head(entries)>> ELSE <<>>)
         \o image_entries(Tail(entries))

RECURSIVE insert_by_mtime(_, _)
insert_by_mtime(e, s) ==
    IF s = <<>> THEN <<e>>
    ELSE IF e.mtime >= Head(s).mtime THEN <<e>> \o s
    ELSE <<Head(s)>> \o insert_by_mtime(e, Tail(s))

(* lines 78-82: sorted(..., key=st_mtime, reverse=True), a stable sort *)
RECURSIVE sorted_by_mtime(_)
sorted_by_mtime(s) ==
    IF s = <<>> THEN <<>> ELSE insert_by_mtime(Head(s), sorted_by_mtime(Tail(s)))

(* s[a:b] of Python for 0 <= a <= b *)
slice(s, a, b) == SubSeq(s, a + 1, Min(b, Len(s)))

(* lines 238-240 *)
_empty_list_response ==
    [total |-> 0, count |-> 0, offset |-> 0, has_more |-> FALSE, next_offset |-> <<>>,
     images |-> <<>>]

(* Mutant: has_more is computed from the page size asked for *)
image_gen_list_by_limit(dir, lim, offset) ==
    IF ~dir.exists THEN _empty_list_response
    ELSE LET image_files == sorted_by_mtime(image_entries(dir.entries))
             page == slice(image_files, offset, offset + lim)
             has_more == Len(image_files) >= offset + lim
         IN [total |-> Len(image_files), count |-> Len(page), offset |-> offset,
             has_more |-> has_more,
             next_offset |-> IF has_more THEN <<offset + Len(page)>> ELSE <<>>,
             images |-> [n \in 1..Len(page) |-> page[n].name]]

(* lines 72-110 *)
image_gen_list(dir, lim, offset) ==
    IF ~dir.exists THEN _empty_list_response
    ELSE LET image_files == sorted_by_mtime(image_entries(dir.entries))
             page == slice(image_files, offset, offset + lim)
             has_more == Len(image_files) > offset + Len(page)
         IN [total |-> Len(image_files), count |-> Len(page), offset |-> offset,
             has_more |-> has_more,
             next_offset |-> IF has_more THEN <<offset + Len(page)>> ELSE <<>>,
             images |-> [n \in 1..Len(page) |-> page[n].name]]

Limits == LimitMin..Min(LimitMax, MaxLimit)

Offsets == OffsetMin..(MaxFiles + 1)

ListIdle ==
    /\ output_dir = NoDirectory /\ limit = LimitMin /\ asked_offset = 0 /\ lpc = "idle"
    /\ response = <<>> /\ visited = <<>>

----------------------------------------------------------------------------
(* JSON values of a request body and the Python that reads them.  A string  *)
(* is a sequence of characters, a number an integer count of hundredths.    *)

JNone == [t |-> "none", s |-> <<>>, c |-> 0]
JStr(chars) == [t |-> "str", s |-> chars, c |-> 0]
JNum(hundredths) == [t |-> "num", s |-> <<>>, c |-> hundredths]

(* bool(v) *)
truthy(v) ==
    CASE v.t = "none" -> FALSE
      [] v.t = "str"  -> v.s # <<>>
      [] v.t = "num"  -> v.c # 0

(* a or b *)
py_or(a, b) == IF truthy(a) THEN a ELSE b

RECURSIVE lstrip(_)
lstrip(chars) ==
    IF chars # <<>> /\ Head(chars) = " " THEN lstrip(Tail(chars)) ELSE chars

RECURSIVE rstrip(_)
rstrip(chars) ==
    IF chars # <<>> /\ chars[Len(chars)] = " "
    THEN rstrip(SubSeq(chars, 1, Len(chars) - 1)) ELSE chars

(* Mutant: blanks are kept *)
strip_nothing(chars) == chars

(* str.strip() *)
strip(chars) == rstrip(lstrip(chars))

(* s[:n] *)
truncate(chars, n) == SubSeq(chars, 1, Min(n, Len(chars)))

Digit(ch) ==
    CASE ch = "0" -> 0 [] ch = "1" -> 1 [] ch = "2" -> 2 [] ch = "3" -> 3 [] ch = "4" -> 4
      [] ch = "5" -> 5 [] ch = "6" -> 6 [] ch = "7" -> 7 [] ch = "8" -> 8 [] ch = "9" -> 9

Digits == {"0", "1", "2", "3", "4", "5", "6", "7", "8", "9"}

RECURSIVE digits_value(_)
digits_value(chars) ==
    IF chars = <<>> THEN 0
    ELSE 10 * digits_value(SubSeq(chars, 1, Len(chars) - 1)) + Digit(chars[Len(chars)])

(* the integer a string of digits (blanks around it allowed) stands for, as *)
(* <<n>>; <<>> when it is no such string                                    *)
parse_int(chars) ==
    LET body_ == strip(chars) IN
    IF body_ # <<>> /\ \A n \in 1..Len(body_) : body_[n] \in Digits
    THEN <<digits_value(body_)>> ELSE <<>>

(* the integer part of a number of hundredths, towards zero *)
trunc(c) == IF c >= 0 THEN c \div Centi ELSE -((-c) \div Centi)

(* int(v) for a v that is not None: <<n>>, or <<>> when it raises ValueError *)
py_int(v) ==
    CASE v.t = "num" -> <<trunc(v.c)>>
      [] v.t = "str" -> parse_int(v.s)

(* float(v) for a v that is not None, in hundredths: <<c>>, or <<>> when it *)
(* raises ValueError                                                        *)
py_float(v) ==
    CASE v.t = "num" -> <<v.c>>
      [] v.t = "str" -> IF parse_int(v.s) = <<>> THEN <<>> ELSE <<parse_int(v.s)[1] * Centi>>

(* What a handler does with a request: it returns a response, lets an       *)
(* exception out, or calls the orchestrator with args                       *)
Respond(status) == [kind |-> "respond", status |-> status, exc |-> "", args |-> <<>>]
Raise(exc) == [kind |-> "raise", status |-> 0, exc |-> exc, args |-> <<>>]
Invoke(args) == [kind |-> "call", status |-> 0, exc |-> "", args |-> <<args>>]

----------------------------------------------------------------------------
(* genImages/rest_api.py: generate, lines 37-66 *)

ImageFieldNames ==
    {"description", "prompt", "aspect_ratio", "width", "height", "steps", "guidance_scale"}

NoImageFields == [f \in ImageFieldNames |-> JNone]

(* AspectRatio(aspect_ratio_str): the member, "ValueError" when there is none *)
AspectRatio(chars) ==
    CASE chars = <<"1", ":", "1">> -> "1:1"
      [] chars = <<"1", "6", ":", "9">> -> "16:9"
      [] chars = <<"9", ":", "1", "6">> -> "9:16"
      [] chars = <<"4", ":", "3">> -> "4:3"
      [] chars = <<"2", "1", ":", "9">> -> "21:9"
      [] chars = <<"c", "u", "s", "t", "o", "m">> -> "custom"
      [] OTHER -> "ValueError"

(* pydantic on an Optional[int] field with ge and le: None passes, a number *)
(* must be whole, a string must read as an integer                          *)
valid_optional_int(v, lo, hi) ==
    CASE v.t = "none" -> TRUE
      [] v.t = "num"  -> v.c % Centi = 0 /\ trunc(v.c) \in lo..hi
      [] v.t = "str"  -> parse_int(v.s) # <<>> /\ parse_int(v.s)[1] \in lo..hi

(* GenerateImageInput(...): TRUE when pydantic accepts the arguments *)
GenerateImageInput(args) ==
    /\ valid_optional_int(args.width, DimMin, DimMax)
    /\ valid_optional_int(args.height, DimMin, DimMax)
    /\ args.steps \in StepsMin..StepsMax
    /\ args.guidance_scale \in (GuidanceMin * Centi)..(GuidanceMax * Centi)

(* lines 37-66: up to the call of run_generation *)
image_generate(b) ==
    IF b.kind = "invalid" THEN Respond(400)
    ELSE IF b.kind = "other" THEN Raise("AttributeError")
    ELSE LET f == IF b.kind = "falsy" THEN NoImageFields ELSE b.fields
             p == py_or(py_or(f.description, f.prompt), JStr(<<>>))
             a == py_or(f.aspect_ratio, JStr(<<"1", "6", ":", "9">>))
         IN
         IF p.t # "str" THEN Raise("AttributeError")
         ELSE IF Len(strip(p.s)) < PromptMin THEN Respond(400)
         ELSE IF a.t # "str" THEN Raise("AttributeError")
         ELSE IF f.steps.t # "none" /\ py_int(f.steps) = <<>> THEN Raise("ValueError")
         ELSE IF f.guidance_scale.t # "none" /\ py_float(f.guidance_scale) = <<>>
              THEN Raise("ValueError")
         ELSE LET ratio == AspectRatio(strip(a.s))
                  args ==
                    [prompt |-> truncate(strip(p.s), PromptMax),
                     aspect_ratio |-> IF ratio = "ValueError" THEN "16:9" ELSE ratio,
                     width |-> f.width,
                     height |-> f.height,
                     steps |-> IF f.steps.t # "none" THEN py_int(f.steps)[1]
                               ELSE StepsDefault,
                     guidance_scale |-> IF f.guidance_scale.t # "none"
                                        THEN py_float(f.guidance_scale)[1]
                                        ELSE GuidanceDefault * Centi]
              IN IF GenerateImageInput(args) THEN Invoke(args) ELSE Raise("ValidationError")

(* Mutant: a failed generation is answered with a server error *)
image_response_500(success) ==
    [status |-> IF success THEN 200 ELSE 500, success |-> success, error |-> ~success]

(* line 68: JSONResponse(result.model_dump()) *)
image_response(success) == [status |-> 200, success |-> success, error |-> ~success]

----------------------------------------------------------------------------
(* genAudio/rest_api.py: generate, lines 56-129 *)

FloatKeys ==
    {"exaggeration", "cfg_weight", "temperature", "repetition_penalty", "min_p", "top_p",
     "speed"}

AudioFieldNames ==
    {"text", "prompt", "audio_prompt_path", "audio_prompt", "language", "language_id"}
    \cup FloatKeys

NoAudioFields == [f \in AudioFieldNames |-> JNone]

(* lines 88-94: default, min_val, max_val of each key, in hundredths *)
FLOAT_PARAMS ==
    [key \in FloatKeys |->
        CASE key = "exaggeration"       -> [default |-> 40, min_val |-> 0, max_val |-> 200]
          [] key = "cfg_weight"         -> [default |-> 50, min_val |-> 0, max_val |-> 100]
          [] key = "temperature"        -> [default |-> 60, min_val |-> 5, max_val |-> 200]
          [] key = "repetition_penalty" -> [default |-> 200, min_val |-> 100, max_val |-> 300]
          [] key = "min_p"              -> [default |-> 5, min_val |-> 0, max_val |-> 100]
          [] key = "top_p"              -> [default |-> 100, min_val |-> 0, max_val |-> 100]
          [] key = "speed"              -> [default |-> 100, min_val |-> 50, max_val |-> 150]]

(* lines 36-44 *)
_float_param(fields, key, default, min_val, max_val) ==
    LET v == fields[key] IN
    IF v.t = "none" THEN default
    ELSE IF py_float(v) = <<>> THEN default
    ELSE Max(min_val, Min(max_val, py_float(v)[1]))

(* lines 56-95: up to the call of generate_audio; is_file: whether the      *)
(* reference clip named by the body or by the settings is a file            *)
audio_generate(b, is_file) ==
    IF b.kind = "invalid" THEN Respond(400)
    ELSE IF b.kind = "other" THEN Raise("AttributeError")
    ELSE LET f == IF b.kind = "falsy" THEN NoAudioFields ELSE b.fields
             t == py_or(py_or(f.text, f.prompt), JStr(<<>>))
             raw_ref == py_or(f.audio_prompt_path, f.audio_prompt)
         IN
         IF t.t # "str" THEN Raise("AttributeError")
         ELSE IF Len(strip(t.s)) < TextMin THEN Respond(400)
         ELSE IF truthy(raw_ref) /\ raw_ref.t # "str" THEN Raise("TypeError")
         ELSE Invoke(
                [text |-> truncate(strip(t.s), TextMax),
                 audio_prompt_path |-> is_file,
                 language_id |-> py_or(py_or(f.language, f.language_id), JStr(<<"e", "n">>)),
                 floats |-> [key \in FloatKeys |->
                               _float_param(f, key, FLOAT_PARAMS[key].default,
                                            FLOAT_PARAMS[key].min_val,
                                            FLOAT_PARAMS[key].max_val)]])

(* backends/chatterbox.py, line 122: (language_id or "en").strip() raises   *)
(* for a language that is not a string                                      *)
generate_audio_must_raise(args) == args.language_id.t # "str"

(* lines 113-117 and 119-129 *)
audio_response(success) == [status |-> 200, success |-> success, error |-> ~success]

(* Bodies the handlers are run on *)
TextSamples ==
    {JNone, JStr(<<>>), JStr(<<" ", " ">>), JStr(<<"a">>), JStr(<<"a", "b">>),
     JStr(<<" ", "a", "b", "c", " ">>), JNum(5 * Centi)}

ImageFieldSamples ==
    [description : TextSamples \ {JStr(<<"a">>)},
     prompt : {JNone, JStr(<<"a", "b", "c">>)},
     aspect_ratio : {JNone, JStr(<<" ", "c", "u", "s", "t", "o", "m">>), JStr(<<"x">>),
                     JNum(169)},
     width : {JNone, JNum(1024 * Centi), JNum(100 * Centi), JStr(<<"a">>)},
     height : {JNone, JNum(5000 * Centi)},
     steps : {JNone, JNum(8 * Centi), JNum(850), JNum(0), JNum(51 * Centi),
              JStr(<<"1", "2">>), JStr(<<"a">>)},
     guidance_scale : {JNone, JNum(450), JNum(-100), JNum(2050), JStr(<<"a">>)}]

FloatSamples == {JNum(70), JNum(-100), JNum(900), JStr(<<"1">>), JStr(<<"a">>)}

AudioFieldSamples ==
    {[[[[[NoAudioFields EXCEPT !["text"] = t] EXCEPT !["prompt"] = p]
            EXCEPT !["audio_prompt_path"] = r] EXCEPT !["language"] = l] EXCEPT ![key] = v] :
        t \in TextSamples \ {JStr(<<"a", "b">>)},
        p \in {JNone, JStr(<<"a", "b", "c">>)},
        r \in {JNone, JStr(<<"r">>), JNum(Centi)},
        l \in {JNone, JStr(<<"e", "s">>), JNum(Centi)},
        key \in FloatKeys,
        v \in FloatSamples \cup {JNone}}

(* kind: "invalid" request.json() raises; "falsy" null, 0, "", [] or {};    *)
(* "other" a list, string or number that is not falsy; "object" a dict      *)
Bodies(no_fields, samples) ==
    {[kind |-> kd, fields |-> no_fields] : kd \in {"invalid", "falsy", "other"}}
    \cup {[kind |-> "object", fields |-> f] : f \in samples}

ImageBodies == Bodies(NoImageFields, ImageFieldSamples)

AudioBodies == Bodies(NoAudioFields, AudioFieldSamples)

(* The RPC tools: FastMCP validates the arguments against the declared      *)
(* model before the tool function runs                                      *)

(* tools/generate.py (genImages), lines 42-87, with the validation of       *)
(* models.py, lines 39-111: prompt is stripped, then its length checked;    *)
(* "description" is no field of the model and extra fields are forbidden    *)
image_gen_generate(b) ==
    LET f == b.fields IN
    IF f.description.t # "none" \/ f.prompt.t # "str" THEN Raise("ValidationError")
    ELSE IF Len(strip(f.prompt.s)) \notin PromptMin..PromptMax THEN Raise("ValidationError")
    ELSE IF f.steps.t \notin {"none", "num"} \/ f.guidance_scale.t \notin {"none", "num"}
         THEN Raise("ValidationError")
    ELSE LET args ==
               [prompt |-> strip(f.prompt.s),
                aspect_ratio |-> "1:1",
                width |-> f.width,
                height |-> f.height,
                steps |-> IF f.steps.t = "none" THEN StepsDefault ELSE trunc(f.steps.c),
                guidance_scale |-> IF f.guidance_scale.t = "none"
                                   THEN GuidanceDefault * Centi ELSE f.guidance_scale.c]
         IN IF GenerateImageInput(args) THEN Invoke(args) ELSE Raise("ValidationError")

(* tools/generate.py (genAudio), lines 22-30: GenerateAudioInput *)
GenerateAudioInput(args) ==
    /\ Len(args.text) \in TextMin..TextMax
    /\ args.speed \in 50..150

(* tools/generate.py (genAudio), lines 35-54: up to run_in_executor *)
audio_gen_generate(b) ==
    LET f == b.fields IN
    IF f.text.t # "str" \/ f.speed.t \notin {"none", "num"} THEN Raise("ValidationError")
    ELSE LET args == [text |-> f.text.s,
                      speed |-> IF f.speed.t = "none" THEN 100 ELSE f.speed.c]
         IN IF GenerateAudioInput(args) THEN Invoke(args) ELSE Raise("ValidationError")

(* Texts around a maximum length, bare and with blanks around them *)
Text(n) == SubSeq([j \in 1..n |-> "a"], 1, n)

LongTexts(max) ==
    {Text(n) : n \in (max - 1)..(max + MaxOver)}
    \cup {<<" ">> \o Text(n) \o <<" ">> : n \in (max - 1)..(max + MaxOver)}

LongPrompts == LongTexts(PromptMax)

LongSpeeches == LongTexts(TextMax)

(* POST /generate bodies and tool arguments with such texts *)
LongImageBodies ==
    {[kind |-> "object",
      fields |-> [[NoImageFields EXCEPT !.description = JStr(t)] EXCEPT !.steps = v]] :
        t \in LongPrompts, v \in {JNone, JNum(51 * Centi)}}

LongAudioBodies ==
    {[kind |-> "object",
      fields |-> [[NoAudioFields EXCEPT !.text = JStr(t)] EXCEPT !.speed = v]] :
        t \in LongSpeeches, v \in {JNone, JNum(900)}}

ImageToolArguments ==
    {[kind |-> "object",
      fields |-> [[NoImageFields EXCEPT !.prompt = JStr(t)] EXCEPT !.steps = v]] :
        t \in LongPrompts, v \in {JNone, JNum(51 * Centi)}}

AudioToolArguments == LongAudioBodies

RestIdle ==
    /\ surface = "none" /\ body = [kind |-> "invalid", fields |-> <<>>] /\ rpc = "idle"
    /\ passed = <<>> /\ outcome = "" /\ http = <<>> /\ unhandled = ""

----------------------------------------------------------------------------
(* download_image and the directory it writes to.  A file's content is a    *)
(* number in 1..MaxBytes, 0 stands for no file of that name.                *)

Names == 1..MaxNames
Bytes == 1..MaxBytes

NoFiles == [n \in Names |-> 0]

(* The states a directory path can be in: missing, or holding some files *)
Directories ==
    {[exists |-> FALSE, content |-> NoFiles]}
    \cup {[exists |-> TRUE, content |-> c] : c \in [Names -> {0} \cup Bytes]}

(* GET /view answered: an httpx exception, or a status and a body *)
DownloadResponses ==
    {[exc |-> e, status |-> 0, content |-> 0] : e \in TransportExcs}
    \cup {[exc |-> "none", status |-> c, content |-> b] : c \in ProbeStatusCodes, b \in Bytes}

NoViewResponse == [exc |-> "none", status |-> 0, content |-> 0]

(* line 292: dest_dir.mkdir(parents=True, exist_ok=True) *)
mkdir(dir) == [dir EXCEPT !.exists = TRUE]

(* Mutant: a file that is already there is kept *)
write_bytes_keep(dir, name, content) ==
    IF dir.content[name] # 0 THEN dir ELSE [dir EXCEPT !.content[name] = content]

(* line 303: dest_path.write_bytes(response.content) *)
write_bytes(dir, name, content) == [dir EXCEPT !.content[name] = content]

DownloadIdle ==
    /\ dest_dir = [exists |-> FALSE, content |-> NoFiles]
    /\ dest_before = dest_dir /\ dl_filename = 0 /\ dlpc = "idle"
    /\ view_response = NoViewResponse /\ dl_outcome = <<>>

----------------------------------------------------------------------------
(* GET /health of the two services *)

SampleSize == 5

(* What the body of a 200 answer to /object_info/CheckpointLoaderSimple can *)
(* be: no JSON, JSON that is no object, an object without the key chain, a  *)
(* "ckpt_name" that is an empty list, one whose first item is the list of n *)
(* names, and one whose first item is a number                              *)
InventoryBodies ==
    {[kind |-> kd, n |-> 0] : kd \in {"invalid", "not_object", "no_key", "empty", "number"}}
    \cup {[kind |-> "names", n |-> n] : n \in 0..MaxCheckpoints}

InventoryResponses ==
    {[exc |-> e, status |-> 0, body |-> [kind |-> "invalid", n |-> 0]] : e \in TransportExcs}
    \cup {[exc |-> "none", status |-> c, body |-> b] : c \in StatusCodes, b \in InventoryBodies}

NoInventoryResponse == [exc |-> "none", status |-> 0, body |-> [kind |-> "invalid", n |-> 0]]

(* Mutant: the exceptions of the inventory query are let through *)
get_available_checkpoints_raising(resp) ==
    IF resp.exc # "none" THEN [raised |-> resp.exc, kind |-> "list", n |-> 0]
    ELSE IF raise_for_status(resp.status)
         THEN [raised |-> "HTTPStatusError", kind |-> "list", n |-> 0]
    ELSE IF resp.body.kind \in {"names", "number"}
         THEN [raised |-> "", kind |-> IF resp.body.kind = "names" THEN "list" ELSE "number",
               n |-> resp.body.n]
    ELSE [raised |-> "", kind |-> "list", n |-> 0]

(* comfyui.py, lines 180-189: the value returned, a list of n names or a    *)
(* number; every exception of the try block gives the empty list            *)
get_available_checkpoints(resp) ==
    IF resp.exc # "none" \/ raise_for_status(resp.status)
       \/ resp.body.kind \in {"invalid", "not_object", "empty"}
    THEN [raised |-> "", kind |-> "list", n |-> 0]
    ELSE IF resp.body.kind = "no_key" THEN [raised |-> "", kind |-> "list", n |-> 0]
    ELSE IF resp.body.kind = "number" THEN [raised |-> "", kind |-> "number", n |-> 0]
    ELSE [raised |-> "", kind |-> "list", n |-> resp.body.n]

(* JSONResponse of a health handler *)
HealthResponse(status, ok, sample) == [status |-> status, ok |-> ok, sample |-> sample]

(* genImages/rest_api.py, lines 29-34 *)
image_unhealthy == HealthResponse(503, FALSE, 0)

(* genImages/rest_api.py, lines 18-19 and 27-34: after is_available; "next" *)
(* is TRUE when the handler goes on to the inventory query                  *)
image_health_probed(resp) ==
    LET ok == is_available(resp) IN
    IF ok.exc # NoExc THEN [next |-> FALSE, response |-> <<image_unhealthy>>]
    ELSE IF ok.value THEN [next |-> TRUE, response |-> <<>>]
    ELSE [next |-> FALSE, response |-> <<image_unhealthy>>]

(* genImages/rest_api.py, lines 20-34: after get_available_checkpoints;     *)
(* checkpoints[:5] raises TypeError on a number other than 0                *)
image_health_inventoried(resp) ==
    LET checkpoints == get_available_checkpoints(resp) IN
    IF checkpoints.raised # "" THEN image_unhealthy
    ELSE IF checkpoints.kind = "number" THEN image_unhealthy
    ELSE HealthResponse(200, TRUE, Min(checkpoints.n, SampleSize))

(* chatterbox.py, lines 35-70, run by one thread alone: the model returned  *)
(* (0: none) and the exception raised                                       *)
get_model(m, inst, pretrained, fresh) ==
    IF is_loaded(m) THEN [model |-> m, exc |-> ""]
    ELSE IF ~inst THEN [model |-> 0, exc |-> "RuntimeError"]
    ELSE IF pretrained THEN [model |-> fresh, exc |-> ""]
    ELSE [model |-> 0, exc |-> "Exception"]

(* genAudio/rest_api.py, lines 21-33 *)
audio_health(got) ==
    IF got.exc = "" THEN HealthResponse(200, TRUE, 0) ELSE HealthResponse(503, FALSE, 0)

HealthIdle ==
    /\ service = "none" /\ hpc = "idle" /\ stats = NoProbeResponse
    /\ object_info = NoInventoryResponse /\ got_model = <<>>
    /\ health_response = <<>> /\ answered = 0

----------------------------------------------------------------------------
(* The state after construction *)

NoGen == [state |-> "idle", value |-> <<>>, exc |-> NoExc]
Running == [state |-> "running", value |-> <<>>, exc |-> NoExc]

(* probes: GET /system_stats sent; posts: the job graphs POSTed; views: the  *)
(* GET /view sent; jobs: per POSTed job its fate; failures: failed requests  *)
NoNet == [probes |-> 0, posts |-> <<>>, views |-> <<>>, jobs |-> <<>>, failures |-> 0]

(* probe, post, last: the latest answer of each kind; history: GET /history  *)
(* sent; absent, pending: how many of them had no job id, no terminal state  *)
NoCall ==
    [probe |-> NoProbeResponse, post |-> NoPostResponse, sleeps |-> 0, history |-> 0,
     absent |-> 0, pending |-> 0, last |-> NoResponse]

Job(state, names) == [state |-> state, filenames |-> names]

(* Seeds the checks run on: one whose low limb carries, and 2^32 - 1 *)
SeedSamples == {<<0, LimbBase - 1>>, SeedMax}

InitCommon ==
    /\ pc = "start"
    /\ seed = <<0, 0>>
    /\ i = 0
    /\ prompt_id = <<>>
    /\ attempt = 0
    /\ filenames = <<>>
    /\ k = 0
    /\ generated_images = <<>>
    /\ gen = NoGen
    /\ result = <<>>
    /\ files = {}
    /\ net = NoNet
    /\ call = NoCall
    /\ DimensionsIdle
    /\ ModelIdle
    /\ ListIdle
    /\ RestIdle
    /\ DownloadIdle
    /\ HealthIdle

(* run_generation(params) with a validated GenerateImageInput; the client   *)
(* gets settings.comfyui_timeout, a positive number of seconds              *)
Init ==
    /\ entry = "run_generation"
    /\ timeout \in 1..MaxBatchTimeout
    /\ params \in [batch_size : MinBatchSize..MaxBatchSize,
                   seed : {<<>>} \cup {<<s>> : s \in SeedSamples}]
    /\ InitCommon

(* ComfyUIClient(timeout = t).generate(workflow) called on its own *)
InitClient ==
    /\ entry = "generate"
    /\ timeout \in 0..MaxTimeout
    /\ params = [batch_size |-> MinBatchSize, seed |-> <<>>]
    /\ InitCommon

----------------------------------------------------------------------------
(* What the caller of client.generate / download_image does next *)

(* Mutant: a failed item is tried again *)
PropagateRetry(exc) ==
    /\ pc' = "probe"
    /\ result' = result

(* An exception leaves the coroutine: generate alone ends raised,           *)
(* run_generation's except clauses turn it into the result.                 *)
Propagate(exc) ==
    /\ pc' = "done"
    /\ result' = IF entry = "run_generation"
                 THEN <<on_exception(exc, generated_images)>> ELSE result

Raised(exc) == [state |-> "raised", value |-> <<>>, exc |-> exc]

(* The batch loop after item i is complete: the next item's generate runs   *)
(* up to its first await, or the function returns.                          *)
NextItem(images) ==
    IF has_next_item(i, params.batch_size)
    THEN /\ i' = i + 1
         /\ pc' = "probe"
         /\ gen' = Running
         /\ result' = result
    ELSE /\ i' = i
         /\ pc' = "done"
         /\ gen' = gen
         /\ result' = <<on_success(images)>>

----------------------------------------------------------------------------
(* Actions *)

(* generate alone: the call runs to its first await, GET /system_stats *)
CallGenerate ==
    /\ UNCHANGED other_than_generation
    /\ pc = "start" /\ entry = "generate"
    /\ pc' = "probe"
    /\ gen' = Running
    /\ UNCHANGED <<entry, params, timeout, seed, i, prompt_id, attempt, filenames, k,
                   generated_images, result, files, net, call>>

(* run_generation, lines 92-109, up to the first await of the first item *)
RunGeneration ==
    /\ UNCHANGED other_than_generation
    /\ pc = "start" /\ entry = "run_generation"
    /\ \E random \in SeedSamples : seed' = resolve_seed(params.seed, random)
    /\ generated_images' = <<>>
    /\ i' = 0
    /\ pc' = "probe"
    /\ gen' = Running
    /\ UNCHANGED <<entry, params, timeout, prompt_id, attempt, filenames, k,
                   result, files, net, call>>

(* assert_available: GET /system_stats answered *)
Probe ==
    /\ UNCHANGED other_than_generation
    /\ pc = "probe"
    /\ \E resp \in ProbeResponses :
         LET exc == assert_available(resp) IN
         /\ call' = [call EXCEPT !.probe = resp]
         /\ net' = [net EXCEPT !.probes = @ + 1,
                               !.failures = IF resp.exc = "none" /\ resp.status = 200
                                            THEN @ ELSE @ + 1]
         /\ IF exc = NoExc
            THEN /\ pc' = "post"
                 /\ UNCHANGED <<gen, result>>
            ELSE /\ gen' = Raised(exc)
                 /\ Propagate(exc)
    /\ UNCHANGED <<entry, params, timeout, seed, i, prompt_id, attempt, filenames, k,
                   generated_images, files>>

(* generate, lines 210-227: POST /prompt answered; on success                *)
(* _poll_until_done starts and suspends in its first sleep                   *)
Post ==
    /\ UNCHANGED other_than_generation
    /\ pc = "post"
    /\ \E resp \in PostResponses :
         LET exc == enqueue(resp)
             sent == [net EXCEPT !.posts = Append(@, [item |-> i, seed |-> batch_seed(seed, i)])]
         IN
         /\ call' = [call EXCEPT !.post = resp]
         /\ IF exc # NoExc
            THEN /\ net' = [sent EXCEPT !.jobs = Append(@, Job("rejected", <<>>)),
                                        !.failures = @ + 1]
                 /\ gen' = Raised(exc)
                 /\ Propagate(exc)
                 /\ UNCHANGED <<prompt_id, attempt>>
            ELSE /\ prompt_id' = <<Len(net.posts) + 1>>
                 /\ attempt' = 0
                 /\ IF max_attempts(timeout) > 0
                    THEN /\ net' = [sent EXCEPT !.jobs = Append(@, Job("inflight", <<>>))]
                         /\ pc' = loop_body_start
                         /\ UNCHANGED <<gen, result>>
                    ELSE LET t == ComfyUIGenerationError("Timeout", 0, 0) IN
                         /\ net' = [sent EXCEPT !.jobs = Append(@, Job("abandoned", <<>>))]
                         /\ gen' = Raised(t)
                         /\ Propagate(t)
    /\ UNCHANGED <<entry, params, timeout, seed, i, filenames, k, generated_images, files>>

(* _poll_until_done, line 235: asyncio.sleep(POLL_INTERVAL_SEC) is over *)
Sleep ==
    /\ UNCHANGED other_than_generation
    /\ pc = "sleep"
    /\ pc' = "poll"
    /\ call' = [call EXCEPT !.sleeps = @ + 1]
    /\ UNCHANGED <<entry, params, timeout, seed, i, prompt_id, attempt, filenames, k,
                   generated_images, gen, result, files, net>>

(* _poll_until_done, lines 237-265: GET /history/{prompt_id} answered; then  *)
(* generate returns (lines 227-229) and, in run_generation, the first        *)
(* download_image runs to its GET /view (lines 110-111, 291-296)             *)
Poll(responses) ==
    /\ UNCHANGED other_than_generation
    /\ pc = "poll"
    /\ \E resp \in responses :
         LET it == poll_iteration(resp)
             seen == [call EXCEPT !.history = @ + 1,
                                  !.absent = IF JobAbsent(resp) THEN @ + 1 ELSE @,
                                  !.pending = IF JobAbsent(resp) \/ JobPending(resp)
                                              THEN @ + 1 ELSE @,
                                  !.last = resp]
             fate(state, names) ==
                 [net EXCEPT !.jobs[Len(net.jobs)] = Job(state, names),
                             !.failures = IF Answered(resp) /\ ~JobError(resp)
                                          THEN @ ELSE @ + 1]
         IN
         IF it.exc # NoExc
         THEN /\ gen' = Raised(it.exc)
              /\ Propagate(it.exc)
              /\ call' = seen
              /\ net' = fate("failed", <<>>)
              /\ UNCHANGED <<attempt, prompt_id, filenames, k, i>>
         ELSE IF it.done
         THEN /\ gen' = [state |-> "returned", value |-> it.filenames, exc |-> NoExc]
              /\ net' = fate("succeeded", it.filenames)
              /\ IF entry = "generate"
                 THEN /\ pc' = "done"
                      /\ call' = seen
                      /\ UNCHANGED <<attempt, prompt_id, filenames, k, i, result>>
                 ELSE \* the frames of _poll_until_done and generate are gone
                      /\ call' = NoCall
                      /\ attempt' = 0
                      /\ prompt_id' = <<>>
                      /\ filenames' = it.filenames
                      /\ k' = 1
                      /\ pc' = "download"
                      /\ UNCHANGED <<i, result>>
         ELSE IF has_next_attempt(attempt, timeout)
         THEN /\ attempt' = attempt + 1
              /\ pc' = loop_body_start
              /\ call' = seen
              /\ UNCHANGED <<gen, result, prompt_id, filenames, k, i, net>>
         ELSE LET t == ComfyUIGenerationError("Timeout", 0, 0) IN
              /\ gen' = Raised(t)
              /\ Propagate(t)
              /\ call' = seen
              /\ net' = fate("abandoned", <<>>)
              /\ UNCHANGED <<attempt, prompt_id, filenames, k, i>>
    /\ UNCHANGED <<entry, params, timeout, seed, generated_images, files>>

PollClient == Poll(ClientHistoryResponses)

PollBatch == Poll(BatchHistoryResponses)

(* download_image, lines 296-305, and run_generation, lines 112-118:         *)
(* GET /view answered, the file written, the record appended; then the next  *)
(* download, the next item, or the return                                    *)
Download ==
    /\ UNCHANGED other_than_generation
    /\ pc = "download"
    /\ \E resp \in ViewResponses :
         LET exc == download_image(resp)
             name == filenames[k]
             images == Append(generated_images, GeneratedImage(name, batch_seed(seed, i)))
             sent == [net EXCEPT !.views = Append(@, [item |-> i, filename |-> name])]
         IN
         IF exc # NoExc
         THEN /\ net' = [sent EXCEPT !.failures = @ + 1]
              /\ Propagate(exc)
              /\ UNCHANGED <<generated_images, files, k, i, gen>>
         ELSE /\ net' = sent
              /\ files' = files \cup {name}
              /\ generated_images' = images
              /\ IF has_next_filename(k, filenames)
                 THEN /\ k' = k + 1
                      /\ UNCHANGED <<pc, i, gen, result>>
                 ELSE /\ UNCHANGED k
                      /\ NextItem(images)
    /\ UNCHANGED <<entry, params, timeout, seed, prompt_id, attempt, filenames, call>>

Next == RunGeneration \/ Probe \/ Post \/ Sleep \/ PollBatch \/ Download

NextClient == CallGenerate \/ Probe \/ Post \/ Sleep \/ PollClient

Spec == Init /\ [][Next]_vars

SpecClient == InitClient /\ [][NextClient]_vars

(* The event loop resumes a coroutine whose awaited request or sleep is     *)
(* over, and every request is answered or times out.                        *)
SpecClientFair == SpecClient /\ WF_vars(NextClient)

----------------------------------------------------------------------------
(* run_generation, followed for the image dimensions alone: what the        *)
(* backend answers only decides how many files an item has and where the    *)
(* run ends.                                                                *)

GenerationIdle ==
    /\ entry = "none" /\ timeout = 0
    /\ params = [batch_size |-> MinBatchSize, seed |-> <<>>]
    /\ pc = "idle" /\ seed = <<0, 0>> /\ i = 0 /\ prompt_id = <<>> /\ attempt = 0
    /\ filenames = <<>> /\ k = 0 /\ generated_images = <<>> /\ gen = NoGen
    /\ result = <<>> /\ files = {} /\ net = NoNet /\ call = NoCall

InitDimensions ==
    /\ request \in [aspect_ratio : AspectRatios,
                     width : {<<>>} \cup {<<v>> : v \in DimSamples},
                     height : {<<>>} \cup {<<v>> : v \in DimSamples},
                     batch_size : MinBatchSize..MaxBatchSize]
    /\ defaults \in DefaultSamples
    /\ dpc = "start"
    /\ width = 0 /\ height = 0
    /\ batch_index = 0 /\ pending = 0
    /\ workflows = <<>> /\ records = <<>>
    /\ GenerationIdle
    /\ ModelIdle
    /\ ListIdle
    /\ RestIdle
    /\ DownloadIdle
    /\ HealthIdle

(* lines 93-96 *)
ResolveDimensions ==
    /\ dpc = "start"
    /\ LET wh == resolve_dimensions(request.aspect_ratio, request.width, request.height,
                                    defaults[1], defaults[2])
       IN width' = wh[1] /\ height' = wh[2]
    /\ dpc' = "loop"
    /\ UNCHANGED <<request, defaults, batch_index, pending, workflows, records>>
    /\ UNCHANGED other_than_dimensions

(* lines 101-109: the graph of the next item is built and submitted *)
BuildWorkflow ==
    /\ dpc = "loop"
    /\ workflows' = Append(workflows, build_flux_workflow(width, height))
    /\ dpc' = "generate"
    /\ UNCHANGED <<request, defaults, width, height, batch_index, pending, records>>
    /\ UNCHANGED other_than_dimensions

(* line 109: client.generate returns some filenames, or raises *)
GenerateReturns ==
    /\ dpc = "generate"
    /\ \/ \E n \in 1..MaxJobImages : pending' = n /\ dpc' = "download"
       \/ pending' = 0 /\ dpc' = "done"
    /\ UNCHANGED <<request, defaults, width, height, batch_index, workflows, records>>
    /\ UNCHANGED other_than_dimensions

(* lines 110-118: a download ends; the record is appended, or it raised *)
AppendRecord ==
    /\ dpc = "download"
    /\ \/ /\ records' = Append(records, image_record(width, height))
          /\ pending' = pending - 1
          /\ IF pending > 1
             THEN dpc' = "download" /\ batch_index' = batch_index
             ELSE IF has_next_item(batch_index, request.batch_size)
             THEN dpc' = "loop" /\ batch_index' = batch_index + 1
             ELSE dpc' = "done" /\ batch_index' = batch_index
       \/ /\ dpc' = "done"
          /\ UNCHANGED <<records, pending, batch_index>>
    /\ UNCHANGED <<request, defaults, width, height, workflows>>
    /\ UNCHANGED other_than_dimensions

NextDimensions == ResolveDimensions \/ BuildWorkflow \/ GenerateReturns \/ AppendRecord

SpecDimensions == InitDimensions /\ [][NextDimensions]_vars

----------------------------------------------------------------------------
(* get_model called from several threads.  A step is what a thread does     *)
(* between two points at which the interpreter can switch threads and that  *)
(* touch the globals _model and torch.load.                                 *)

InitModel ==
    /\ device \in {"cpu", "cuda"}
    /\ installed \in BOOLEAN
    /\ _model = 0 /\ torch_load = <<>> /\ loads = 0
    /\ callers = [t \in Threads |-> NoCaller]
    /\ GenerationIdle
    /\ DimensionsIdle
    /\ ListIdle
    /\ RestIdle
    /\ DownloadIdle
    /\ HealthIdle

Ends(t, value) ==
    [callers EXCEPT ![t].pc = "idle", ![t].loaded = 0, ![t]._orig_torch_load = <<>>,
                    ![t].returned = Append(@, value)]

At(t, where) == [callers EXCEPT ![t].pc = where]

(* lines 37-39: the call, and the test of the global *)
GetModel ==
    /\ \E t \in Threads :
         /\ callers[t].pc = "idle" /\ Len(callers[t].returned) < MaxCalls
         /\ callers' = IF is_loaded(_model) THEN Ends(t, _model) ELSE At(t, "import")
    /\ UNCHANGED <<device, installed, _model, torch_load, loads>>
    /\ UNCHANGED other_than_model

(* lines 40-58: the import, the device, _orig_torch_load = torch.load *)
ImportAndSave ==
    /\ \E t \in Threads :
         /\ callers[t].pc = "import"
         /\ callers' = IF installed
                       THEN [callers EXCEPT ![t].pc = "patch",
                                            ![t]._orig_torch_load = torch_load]
                       ELSE Ends(t, 0)
    /\ UNCHANGED <<device, installed, _model, torch_load, loads>>
    /\ UNCHANGED other_than_model

(* lines 59-64 *)
PatchTorchLoad ==
    /\ \E t \in Threads :
         /\ callers[t].pc = "patch"
         /\ torch_load' = patch_torch_load(device, t, torch_load, callers[t]._orig_torch_load)
         /\ callers' = At(t, "load")
    /\ UNCHANGED <<device, installed, _model, loads>>
    /\ UNCHANGED other_than_model

(* line 66, right-hand side: from_pretrained runs, and returns or raises *)
FromPretrained ==
    /\ \E t \in Threads :
         /\ callers[t].pc = "load"
         /\ loads' = loads + 1
         /\ \/ callers' = [callers EXCEPT ![t].pc = "assign", ![t].loaded = loads + 1]
            \/ callers' = [callers EXCEPT ![t].pc = "finally", ![t].loaded = 0]
    /\ UNCHANGED <<device, installed, _model, torch_load>>
    /\ UNCHANGED other_than_model

(* line 66, the assignment to the global *)
AssignModel ==
    /\ \E t \in Threads :
         /\ callers[t].pc = "assign"
         /\ _model' = callers[t].loaded
         /\ callers' = At(t, "finally")
    /\ UNCHANGED <<device, installed, torch_load, loads>>
    /\ UNCHANGED other_than_model

(* lines 67-69: finally; an exception of from_pretrained leaves the call *)
Finally ==
    /\ \E t \in Threads :
         /\ callers[t].pc = "finally"
         /\ torch_load' = restore_torch_load(device, torch_load, callers[t]._orig_torch_load)
         /\ callers' = IF callers[t].loaded = 0 THEN Ends(t, 0) ELSE At(t, "return")
    /\ UNCHANGED <<device, installed, _model, loads>>
    /\ UNCHANGED other_than_model

(* line 70: return _model, the global as it is now *)
ReturnModel ==
    /\ \E t \in Threads :
         /\ callers[t].pc = "return"
         /\ callers' = Ends(t, _model)
    /\ UNCHANGED <<device, installed, _model, torch_load, loads>>
    /\ UNCHANGED other_than_model

NextModel ==
    GetModel \/ ImportAndSave \/ PatchTorchLoad \/ FromPretrained \/ AssignModel
    \/ Finally \/ ReturnModel

SpecModel == InitModel /\ [][NextModel]_vars

----------------------------------------------------------------------------
(* image_gen_list on a directory that does not change, called once with any *)
(* offset, or by a caller that starts at 0 and follows next_offset          *)

InitList ==
    /\ output_dir \in {NoDirectory}
                      \cup {Directory(t, o) : t \in 0..MaxFiles, o \in 0..MaxOther}
    /\ limit \in Limits
    /\ asked_offset = 0
    /\ lpc = "start"
    /\ response = <<>>
    /\ visited = <<>>
    /\ GenerationIdle
    /\ DimensionsIdle
    /\ ModelIdle
    /\ RestIdle
    /\ DownloadIdle
    /\ HealthIdle

(* one call with any offset *)
ListAnyOffset ==
    /\ lpc = "start"
    /\ \E offset \in Offsets :
         /\ asked_offset' = offset
         /\ response' = <<image_gen_list(output_dir, limit, offset)>>
    /\ lpc' = "listed"
    /\ UNCHANGED <<output_dir, limit, visited>>
    /\ UNCHANGED other_than_list

(* the first call of the paging caller, and each call with the next_offset  *)
(* of the answer before                                                     *)
ListNextPage ==
    /\ \/ lpc = "start"
       \/ lpc = "paging" /\ response[1].has_more
    /\ LET offset == IF lpc = "start" THEN 0 ELSE response[1].next_offset[1]
           r == image_gen_list(output_dir, limit, offset)
       IN /\ asked_offset' = offset
          /\ response' = <<r>>
          /\ visited' = visited \o r.images
    /\ lpc' = "paging"
    /\ UNCHANGED <<output_dir, limit>>
    /\ UNCHANGED other_than_list

NextList == ListAnyOffset \/ ListNextPage

SpecList == InitList /\ [][NextList]_vars

----------------------------------------------------------------------------
(* One POST /generate on the image or on the audio service.  The            *)
(* orchestrator ends in success or in failure, as its own specification     *)
(* says it can.                                                             *)

InitRest ==
    /\ \/ surface = "image" /\ body \in ImageBodies
       \/ surface = "audio" /\ body \in AudioBodies
    /\ rpc = "received"
    /\ passed = <<>> /\ outcome = "" /\ http = <<>> /\ unhandled = ""
    /\ GenerationIdle
    /\ DimensionsIdle
    /\ ModelIdle
    /\ ListIdle
    /\ DownloadIdle
    /\ HealthIdle

(* what the handler has done when it reaches its await or its end *)
Handled(o) ==
    /\ passed' = o.args
    /\ http' = IF o.kind = "respond"
               THEN <<[status |-> o.status, success |-> FALSE, error |-> TRUE]>> ELSE <<>>
    /\ unhandled' = o.exc
    /\ rpc' = IF o.kind = "call" THEN "generating" ELSE "done"
    /\ UNCHANGED <<surface, body, outcome>>

(* genImages/rest_api.py, lines 37-67 *)
ImageGenerate ==
    /\ rpc = "received" /\ surface = "image"
    /\ Handled(image_generate(body))
    /\ UNCHANGED other_than_rest

(* genImages/rest_api.py, lines 67-68: run_generation returns its result *)
ImageRespond ==
    /\ rpc = "generating" /\ surface = "image"
    /\ \E success \in BOOLEAN :
         /\ outcome' = IF success THEN "ok" ELSE "failed"
         /\ http' = <<image_response(success)>>
    /\ rpc' = "done"
    /\ UNCHANGED <<surface, body, passed, unhandled>>
    /\ UNCHANGED other_than_rest

(* genAudio/rest_api.py, lines 56-112 *)
AudioGenerate ==
    /\ rpc = "received" /\ surface = "audio"
    /\ \E is_file \in BOOLEAN : Handled(audio_generate(body, is_file))
    /\ UNCHANGED other_than_rest

(* genAudio/rest_api.py, lines 112-129: generate_audio returns or raises *)
AudioRespond ==
    /\ rpc = "generating" /\ surface = "audio"
    /\ \E success \in BOOLEAN :
         /\ success => ~generate_audio_must_raise(passed[1])
         /\ outcome' = IF success THEN "ok" ELSE "failed"
         /\ http' = <<audio_response(success)>>
    /\ rpc' = "done"
    /\ UNCHANGED <<surface, body, passed, unhandled>>
    /\ UNCHANGED other_than_rest

NextRest == ImageGenerate \/ ImageRespond \/ AudioGenerate \/ AudioRespond

SpecRest == InitRest /\ [][NextRest]_vars

----------------------------------------------------------------------------
(* SpecLength: the four surfaces that take a text, on texts around the      *)
(* maximum length                                                           *)

InitLength ==
    /\ \/ surface = "image" /\ body \in LongImageBodies
       \/ surface = "audio" /\ body \in LongAudioBodies
       \/ surface = "image_tool" /\ body \in ImageToolArguments
       \/ surface = "audio_tool" /\ body \in AudioToolArguments
    /\ rpc = "received"
    /\ passed = <<>> /\ outcome = "" /\ http = <<>> /\ unhandled = ""
    /\ GenerationIdle
    /\ DimensionsIdle
    /\ ModelIdle
    /\ ListIdle
    /\ DownloadIdle
    /\ HealthIdle

(* image_gen_generate: the arguments are validated, run_generation awaited *)
ImageTool ==
    /\ rpc = "received" /\ surface = "image_tool"
    /\ Handled(image_gen_generate(body))
    /\ UNCHANGED other_than_rest

(* audio_gen_generate: the arguments are validated, generate_audio awaited *)
AudioTool ==
    /\ rpc = "received" /\ surface = "audio_tool"
    /\ Handled(audio_gen_generate(body))
    /\ UNCHANGED other_than_rest

(* the tool returns its text: the result of the generation, or its error *)
ToolReturn ==
    /\ rpc = "generating" /\ surface \in {"image_tool", "audio_tool"}
    /\ \E success \in BOOLEAN : outcome' = IF success THEN "ok" ELSE "failed"
    /\ rpc' = "done"
    /\ UNCHANGED <<surface, body, passed, http, unhandled>>
    /\ UNCHANGED other_than_rest

NextLength ==
    ImageGenerate \/ ImageRespond \/ AudioGenerate \/ AudioRespond
    \/ ImageTool \/ AudioTool \/ ToolReturn

SpecLength == InitLength /\ [][NextLength]_vars

----------------------------------------------------------------------------
(* SpecDownload: download_image(filename, dest_dir) called once *)

InitDownload ==
    /\ dest_dir \in Directories
    /\ dest_before = dest_dir
    /\ dl_filename \in Names
    /\ dlpc = "start"
    /\ view_response = NoViewResponse
    /\ dl_outcome = <<>>
    /\ GenerationIdle
    /\ DimensionsIdle
    /\ ModelIdle
    /\ ListIdle
    /\ RestIdle
    /\ HealthIdle

(* lines 292-296: the directory is made, GET /view is sent *)
DownloadImage ==
    /\ dlpc = "start"
    /\ dest_dir' = mkdir(dest_dir)
    /\ dlpc' = "view"
    /\ UNCHANGED <<dest_before, dl_filename, view_response, dl_outcome>>
    /\ UNCHANGED other_than_download

(* lines 296-305: GET /view answered; the call raises, or writes and returns *)
ViewAnswered ==
    /\ dlpc = "view"
    /\ \E resp \in DownloadResponses :
         LET exc == download_image(resp) IN
         /\ view_response' = resp
         /\ IF exc # NoExc
            THEN /\ dl_outcome' = <<[raised |-> exc]>>
                 /\ UNCHANGED dest_dir
            ELSE /\ dest_dir' = write_bytes(dest_dir, dl_filename, resp.content)
                 /\ dl_outcome' = <<[returned |-> dl_filename]>>
    /\ dlpc' = "done"
    /\ UNCHANGED <<dest_before, dl_filename>>
    /\ UNCHANGED other_than_download

NextDownload == DownloadImage \/ ViewAnswered

SpecDownload == InitDownload /\ [][NextDownload]_vars

----------------------------------------------------------------------------
(* SpecHealth: GET /health of one service, asked up to MaxRequests times *)

InitHealth ==
    /\ service \in {"image", "audio"}
    /\ hpc = "start"
    /\ stats = NoProbeResponse /\ object_info = NoInventoryResponse /\ got_model = <<>>
    /\ health_response = <<>> /\ answered = 0
    /\ device \in {"cpu", "cuda"}
    /\ installed \in BOOLEAN
    /\ _model \in {0, 1} /\ loads = _model /\ torch_load = <<>>
    /\ callers = [t \in Threads |-> NoCaller]
    /\ GenerationIdle
    /\ DimensionsIdle
    /\ ListIdle
    /\ RestIdle
    /\ DownloadIdle

(* genImages health, lines 16-19: the client is made, GET /system_stats sent *)
ImageHealth ==
    /\ service = "image" /\ hpc \in {"start", "done"} /\ answered < MaxRequests
    /\ hpc' = "probe"
    /\ stats' = NoProbeResponse /\ object_info' = NoInventoryResponse
    /\ health_response' = <<>>
    /\ UNCHANGED <<service, got_model, answered>>
    /\ UNCHANGED <<model_vars, other_than_health>>

(* lines 19-21 and 27-34: GET /system_stats answered *)
HealthProbed ==
    /\ hpc = "probe"
    /\ \E resp \in ProbeResponses :
         LET after == image_health_probed(resp) IN
         /\ stats' = resp
         /\ health_response' = after.response
         /\ hpc' = IF after.next THEN "inventory" ELSE "done"
         /\ answered' = IF after.next THEN answered ELSE answered + 1
    /\ UNCHANGED <<service, object_info, got_model>>
    /\ UNCHANGED <<model_vars, other_than_health>>

(* lines 21-34: GET /object_info/CheckpointLoaderSimple answered *)
HealthInventoried ==
    /\ hpc = "inventory"
    /\ \E resp \in InventoryResponses :
         /\ object_info' = resp
         /\ health_response' = <<image_health_inventoried(resp)>>
    /\ hpc' = "done"
    /\ answered' = answered + 1
    /\ UNCHANGED <<service, stats, got_model>>
    /\ UNCHANGED <<model_vars, other_than_health>>

(* genAudio health, lines 21-33: get_model runs on the event loop thread *)
AudioHealth ==
    /\ service = "audio" /\ hpc \in {"start", "done"} /\ answered < MaxRequests
    /\ \E pretrained \in BOOLEAN :
         LET got == get_model(_model, installed, pretrained, loads + 1) IN
         /\ got_model' = <<got>>
         /\ _model' = IF got.exc = "" THEN got.model ELSE _model
         /\ loads' = IF ~is_loaded(_model) /\ installed THEN loads + 1 ELSE loads
         /\ health_response' = <<audio_health(got)>>
    /\ hpc' = "done"
    /\ answered' = answered + 1
    /\ UNCHANGED <<service, stats, object_info>>
    /\ UNCHANGED <<device, installed, torch_load, callers>>
    /\ UNCHANGED other_than_health

NextHealth == ImageHealth \/ HealthProbed \/ HealthInventoried \/ AudioHealth

SpecHealth == InitHealth /\ [][NextHealth]_vars

----------------------------------------------------------------------------
(* Claims *)

(* The attempts _poll_until_done has when the timeout is t seconds *)
Budget(t) == Max(1, t \div POLL_INTERVAL_SEC)

JobFailedError == ComfyUIGenerationError("reporto_error", 0, 0)
TimeoutError == ComfyUIGenerationError("Timeout", 0, 0)

C1_NotEarlier ==
    (call.history > 0 /\ call.absent = call.history)
        => /\ gen.state # "returned"
           /\ call.history < Budget(timeout) => (gen.state = "running" /\ pc \in {"sleep", "poll"})

C1_AtPoll ==
    (call.absent = call.history - 1 /\ JobSucceeded(call.last))
        => (gen.state = "returned" /\ gen.value # <<>> /\ pc = "done")

C1_NoFurtherRequest == gen.state = "returned" => call' = call

(* C1: when the first N history answers omit the job id and answer N+1 has  *)
(* it with an output-tagged image and no error, generate has not returned   *)
(* or failed before poll N+1, returns at poll N+1, and sends no history     *)
(* request after it.                                                        *)
C1_ReturnsAtFirstSuccess ==
    [](C1_NotEarlier /\ C1_AtPoll) /\ [][C1_NoFurtherRequest]_vars

C1_Witness ==
    /\ gen.state = "returned" /\ call.absent = 2 /\ call.history = 3
    /\ JobSucceeded(call.last)

(* C2: when a history answer carries an error in the job's status, generate *)
(* fails with the job-failure error at that very poll, whatever attempts    *)
(* remain, and sends no request after it.                                   *)
C2_FailsAtError ==
    [](JobError(call.last)
        => (gen = Raised(JobFailedError) /\ pc = "done" /\ call.history = attempt + 1))
    /\ [][gen.state = "raised" => (call' = call /\ net' = net)]_vars

C2_Witness ==
    /\ JobError(call.last) /\ call.history = 1 /\ Budget(timeout) > 1
    /\ gen = Raised(JobFailedError)

C3_Inv ==
    /\ call.history <= Budget(timeout)
    /\ (call.pending = call.history /\ call.history = Budget(timeout))
           => (gen = Raised(TimeoutError) /\ pc = "done")
    /\ (call.pending = call.history /\ call.history > 0 /\ call.history < Budget(timeout))
           => gen.state = "running"
    /\ gen = Raised(TimeoutError)
           => (call.history = Budget(timeout) /\ call.pending = call.history)

(* C3: against answers that are never terminal (job id absent, or present   *)
(* without error and without output-tagged image) generate ends, with the   *)
(* timeout failure, after exactly max(1, timeout div interval) history      *)
(* requests; a timeout failure is never raised after another number.        *)
C3_TimeoutAfterBudget == []C3_Inv /\ <>(pc = "done")

C3_Witness ==
    /\ gen = Raised(TimeoutError) /\ timeout = 0 /\ call.history = 1
    /\ JobPending(call.last)

(* The image entries of an answer, as <<node, index>> in encounter order *)
Entries(resp) ==
    UNION {{<<n, j>> : j \in 1..Len(resp.outputs[n].images)} : n \in 1..Len(resp.outputs)}
EntryAt(resp, e) == resp.outputs[e[1]].images[e[2]]
OutputEntries(resp) == {e \in Entries(resp) : EntryAt(resp, e).type = "output"}
Before(e, f) == e[1] < f[1] \/ (e[1] = f[1] /\ e[2] < f[2])

(* C4: for an answer that has the job id and no error, generate returns     *)
(* exactly when some image entry is tagged "output"; what it returns is the *)
(* filenames of the output-tagged entries, each once, in encounter order,   *)
(* and no other filename; without such an entry it polls on, or times out   *)
(* when that was the last attempt.                                          *)
C4_Classification ==
    LET r == call.last
        outs == OutputEntries(r)
    IN
    (Answered(r) /\ r.present /\ r.job_status # "error") =>
        /\ gen.state = "returned" <=> outs # {}
        /\ gen.state = "returned" =>
            /\ Len(gen.value) = Cardinality(outs)
            /\ \A x \in 1..Len(gen.value) :
                 \E e \in outs :
                    /\ EntryAt(r, e).filename = gen.value[x]
                    /\ Cardinality({f \in outs : Before(f, e)}) = x - 1
        /\ outs = {} =>
             IF call.history < Budget(timeout)
             THEN gen.state = "running" /\ pc \in {"sleep", "poll"}
             ELSE gen = Raised(TimeoutError)

C4_Witness ==
    /\ gen.state = "returned" /\ call.history = 2
    /\ Len(call.last.outputs) = 2
    /\ \E e \in Entries(call.last) : EntryAt(call.last, e).type = "temp"

ProbeFailed(p) ==
    \/ p.exc \in {"ConnectError", "TimeoutException"}
    \/ (p.exc = "none" /\ p.status \notin {0, 200})

(* The POSTs and history requests of the running generate call *)
PostsOfCall == {j \in 1..Len(net.posts) : net.posts[j].item = i}

C5_Inv ==
    /\ ProbeFailed(call.probe)
         => /\ gen = Raised(ComfyUIUnavailableError) /\ pc = "done"
            /\ PostsOfCall = {} /\ call.history = 0
    /\ (PostsOfCall # {} \/ call.history > 0 \/ call.post # NoPostResponse)
         => call.probe = [exc |-> "none", status |-> 200]

(* C5: generate's first request is GET /system_stats; when it is refused,   *)
(* times out or answers another status than 200, generate fails with the    *)
(* backend-unavailable error and that call sends no POST /prompt and no GET *)
(* /history, then or later.                                                 *)
C5_ProbeFirst ==
    []C5_Inv /\ [][ProbeFailed(call.probe) => (net' = net /\ call' = call)]_vars

C5_Witness ==
    /\ call.probe = [exc |-> "none", status |-> 204]
    /\ gen = Raised(ComfyUIUnavailableError) /\ net.probes = 1

PostRejected(p) == p.exc = "none" /\ p.status # 0 /\ p.status \notin 200..299

C6_Inv ==
    PostRejected(call.post)
      => /\ gen.state = "raised" /\ pc = "done"
         /\ gen.exc.type = "ComfyUIGenerationError" /\ gen.exc.what = "encolar"
         /\ gen.exc.status = call.post.status
         /\ gen.exc.excerpt = (IF call.post.text_len > 200 THEN 200 ELSE call.post.text_len)
         /\ prompt_id = <<>>
         /\ call.history = 0 /\ call.sleeps = 0

(* C6: when POST /prompt answers a status outside 200..299, generate fails  *)
(* with the submission error that carries the status and the first 200      *)
(* characters of the body, has no job handle, and never sleeps for or sends *)
(* a GET /history.                                                          *)
C6_Rejected ==
    []C6_Inv /\ [][PostRejected(call.post) => (call' = call /\ prompt_id' = prompt_id)]_vars

C6_Witness ==
    /\ PostRejected(call.post) /\ call.post.status = 302 /\ call.post.text_len = 300
    /\ gen.exc.excerpt = 200

Succeeded == result # <<>> /\ result[1].success
Failed == result # <<>> /\ ~result[1].success

C8_PartialBatchReported ==
    (Failed /\ i > 0) =>
        /\ result[1].error # <<>>
        /\ \A j \in 1..Len(generated_images) :
             j <= Len(result[1].images) /\ result[1].images[j] = generated_images[j]

Downloaded(item, name) ==
    \E x \in 1..Len(generated_images) :
        generated_images[x] = GeneratedImage(name, SeedAdd(seed, item))

C10_Inv ==
    /\ \A a, b \in 1..Len(net.posts) : net.posts[a].item = net.posts[b].item => a = b
    /\ \A a, b \in 1..Len(net.views) : net.views[a] = net.views[b] => a = b
    /\ (net.failures > 0 \/ gen.state = "raised")
         => /\ pc = "done" /\ Failed
            /\ net.failures <= 1
            /\ Len(net.posts) <= i + 1 /\ net.probes = i + 1

(* C10: each item is POSTed at most once and each artifact requested at     *)
(* most once; after the first failed request or the poll timeout the run is *)
(* over with a failure: no request of any kind follows and no later item is *)
(* submitted.                                                               *)
C10_NoRetry ==
    []C10_Inv
    /\ [][(net.failures > 0 \/ gen.state = "raised") => (net' = net /\ call' = call)]_vars

C10_Witness ==
    /\ Failed /\ i = 1 /\ params.batch_size = MaxBatchSize
    /\ net.failures = 1 /\ Len(net.views) = 2 /\ Len(generated_images) = 1

----------------------------------------------------------------------------
(* C11 *)

IsGenerationResult(r) == DOMAIN r = {"success", "images", "total_generated", "error"}

(* The texts ComfyUIClient gives its own exceptions; str() of any other     *)
(* exception may be empty, the type name put before it is not.              *)
ComfyUIMessages ==
    {"no_responde", "encolar", "historial", "reporto_error", "Timeout", "descargar"}
MessageNonEmpty(m) == m.prefix # "" \/ m.what \in ComfyUIMessages

(* C11: whatever the backend does (unreachable, non-2xx at enqueue, history *)
(* or download, a transport exception at any request, a malformed payload), *)
(* the run is over with a GenerationResult whose success is false and whose *)
(* message is not empty; what run_generation ends with is always a          *)
(* GenerationResult, never an exception.                                    *)
C11_ErrorContainment ==
    /\ pc = "done" => result # <<>> /\ IsGenerationResult(result[1])
    /\ (net.failures > 0 \/ gen.state = "raised") =>
          /\ pc = "done" /\ result # <<>> /\ IsGenerationResult(result[1])
          /\ ~result[1].success
          /\ result[1].error # <<>> /\ MessageNonEmpty(result[1].error[1])

(* a body of GET /history that is not JSON, for the second item of a batch *)
C11_Witness ==
    /\ pc = "done" /\ i = 1 /\ gen.exc.type = "JSONDecodeError"
    /\ result[1].error[1].prefix = "JSONDecodeError"

----------------------------------------------------------------------------
(* C12, C13, C14 *)

Resolved == dpc \notin {"idle", "start"}

IsDimension(v) == v % 64 = 0 /\ v >= 64

C12_Table(r) ==
    CASE r = "1:1"  -> <<2048, 2048>>
      [] r = "16:9" -> <<3840, 2160>>
      [] r = "9:16" -> <<2160, 3840>>
      [] r = "4:3"  -> <<2560, 1920>>
      [] r = "21:9" -> <<3840, 1600>>

(* C12 as claimed: for every aspect ratio other than custom the resolved    *)
(* width and height are multiples of 64 and are the table entry of the      *)
(* ratio, whatever width and height the request carries.                    *)
C12_TableEntries ==
    (Resolved /\ request.aspect_ratio # "custom") =>
        /\ <<width, height>> = C12_Table(request.aspect_ratio)
        /\ width % 64 = 0 /\ height % 64 = 0

(* C13: for aspect_ratio = custom and an explicit width and height in       *)
(* 256..4096 the resolved values are max(64, (width // 64) * 64) and        *)
(* max(64, (height // 64) * 64).                                            *)
C13_CustomDimensions ==
    (/\ Resolved /\ request.aspect_ratio = "custom"
     /\ request.width # <<>> /\ request.height # <<>>) =>
        /\ width = Max(64, (request.width[1] \div 64) * 64)
        /\ height = Max(64, (request.height[1] \div 64) * 64)

C13_Witness ==
    /\ dpc = "done" /\ request.aspect_ratio = "custom"
    /\ request.width = <<319>> /\ request.height = <<DimMax>>
    /\ width = 256 /\ height = 4096 /\ Len(records) > 0

(* C14: for every aspect ratio, every width and height (given or not) and   *)
(* every configured default, the resolved width and height are multiples of *)
(* 64 and at least 64, and every graph submitted and every record appended  *)
(* carries exactly these two values.                                        *)
C14_DimensionInvariant ==
    /\ Resolved => IsDimension(width) /\ IsDimension(height)
    /\ \A n \in 1..Len(workflows) :
          /\ workflows[n] = [width |-> width, height |-> height]
          /\ IsDimension(workflows[n].width) /\ IsDimension(workflows[n].height)
    /\ \A n \in 1..Len(records) :
          /\ records[n] = [width |-> width, height |-> height]
          /\ IsDimension(records[n].width) /\ IsDimension(records[n].height)

(* no width given, a default that is not a multiple, two items done *)
C14_Witness ==
    /\ dpc = "done" /\ request.aspect_ratio = "custom"
    /\ request.width = <<>> /\ defaults[1] = DimMin + 1 /\ width = 256
    /\ Len(workflows) = 2 /\ Len(records) >= 2

----------------------------------------------------------------------------
(* C15 *)

(* C15 as claimed: under every interleaving of get_model calls the model    *)
(* is loaded at most once in the process, every caller obtains the same     *)
(* model instance, and once a load succeeded no call loads again.           *)
C15_LoadOnce ==
    /\ loads <= 1
    /\ \A t \in Threads : \A n \in 1..Len(callers[t].returned) :
          callers[t].returned[n] \in {0, 1}
    /\ \A t \in Threads : callers[t].loaded \in {0, 1}

----------------------------------------------------------------------------
(* C16 *)

ImageNames == {output_dir.entries[j].name : j \in {n \in 1..Len(output_dir.entries) :
                                                    output_dir.entries[n].image}}

(* C16: with T image files, a limit in 1..100 and an offset >= 0 the answer *)
(* has count = min(limit, max(0, T - offset)) items, has_more exactly when  *)
(* offset + count < T, next_offset = offset + count when has_more and null  *)
(* otherwise; the caller that follows next_offset from 0 until has_more is  *)
(* false has received every file exactly once.                              *)
C16_Pagination ==
    response # <<>> =>
        LET T == Cardinality(ImageNames)
            r == response[1]
        IN /\ r.count = Min(limit, Max(0, T - asked_offset))
           /\ r.count = Len(r.images)
           /\ r.has_more <=> (asked_offset + r.count < T)
           /\ r.next_offset = IF r.has_more THEN <<asked_offset + r.count>> ELSE <<>>
           /\ (lpc = "paging" /\ ~r.has_more) =>
                 /\ Len(visited) = T
                 /\ Range(visited) = ImageNames

(* 25 files, limit 20: the second page has 5 items and is the last *)
C16_Witness ==
    /\ lpc = "paging" /\ limit = 20 /\ Cardinality(ImageNames) = 25
    /\ Len(output_dir.entries) = 26
    /\ response[1].count = 5 /\ ~response[1].has_more /\ response[1].next_offset = <<>>
    /\ Len(visited) = 25

----------------------------------------------------------------------------
(* C17, C18, C19, C20 *)

(* C17: a request that was accepted and whose generation failed (backend    *)
(* unavailable, rejected, failed, timed out, download failed, inference     *)
(* exception) is answered with status 200 and a body with success=false and *)
(* an error message; an accepted request never gets a 4xx or 5xx.           *)
C17_ErrorsAreData ==
    /\ outcome = "failed" =>
          /\ http = <<[status |-> 200, success |-> FALSE, error |-> TRUE]>>
          /\ unhandled = ""
    /\ (rpc = "done" /\ passed # <<>>) => http # <<>> /\ http[1].status = 200

C17_Witness ==
    /\ surface = "image" /\ outcome = "failed" /\ rpc = "done"
    /\ http[1].status = 200 /\ ~http[1].success
    /\ passed[1].steps = 12

IsBlank(v) == v.t = "none" \/ (v.t = "str" /\ \A n \in 1..Len(v.s) : v.s[n] = " ")

(* the body is a JSON object (or null) and neither of the two keys the      *)
(* handler reads the text from has one                                      *)
EmptyInput ==
    /\ body.kind \in {"falsy", "object"}
    /\ IsBlank(body.fields[IF surface = "image" THEN "description" ELSE "text"])
    /\ IsBlank(body.fields["prompt"])

(* C18: a request whose description/prompt (image) or text/prompt (audio)   *)
(* is missing, empty or blank is answered with 400, and run_generation,     *)
(* respectively generate_audio, is never called for it.                     *)
C18_EmptyRejected ==
    (surface # "none" /\ EmptyInput) =>
        /\ passed = <<>> /\ outcome = "" /\ rpc # "generating"
        /\ rpc = "done" => /\ http # <<>> /\ http[1].status = 400
                           /\ unhandled = ""

C18_Witness ==
    /\ surface = "audio" /\ rpc = "done" /\ body.kind = "object"
    /\ body.fields["text"] = JStr(<<" ", " ">>) /\ body.fields["prompt"] = JNone
    /\ http[1].status = 400

Clamp(v, lo, hi) == Max(lo, Min(hi, v))

StringOrNone(v) == v.t \in {"none", "str"}

NumberOrNone(v) == v.t \in {"none", "num"}

(* a body that is an object with a usable text, whose other fields have the *)
(* JSON type the handler expects                                            *)
WellTyped ==
    /\ body.kind = "object"
    /\ LET f == body.fields
           t == py_or(py_or(f[IF surface = "image" THEN "description" ELSE "text"],
                            f["prompt"]), JStr(<<>>))
       IN /\ t.t = "str"
          /\ Len(strip(t.s)) >= (IF surface = "image" THEN PromptMin ELSE TextMin)
          /\ surface = "image" =>
                /\ StringOrNone(f["aspect_ratio"])
                /\ \A key \in {"width", "height", "steps", "guidance_scale"} :
                      NumberOrNone(f[key])
          /\ surface = "audio" =>
                /\ StringOrNone(f["audio_prompt_path"])
                /\ \A key \in FloatKeys : NumberOrNone(f[key])

ClampedDimension(v) ==
    IF v.t = "none" THEN JNone ELSE JNum(Clamp(trunc(v.c), DimMin, DimMax) * Centi)

(* C19 as claimed: every numeric field of a request reaches the generation  *)
(* clamped into its declared range, or as its default when it is missing;   *)
(* a value out of range causes neither a rejection nor an exception.        *)
C19_Clamped ==
    (rpc # "received" /\ surface # "none" /\ WellTyped) =>
        /\ unhandled = "" /\ passed # <<>>
        /\ LET f == body.fields
               a == passed[1]
           IN /\ surface = "image" =>
                    /\ a.steps = IF f["steps"].t = "none" THEN StepsDefault
                                 ELSE Clamp(trunc(f["steps"].c), StepsMin, StepsMax)
                    /\ a.guidance_scale =
                          IF f["guidance_scale"].t = "none" THEN GuidanceDefault * Centi
                          ELSE Clamp(f["guidance_scale"].c, GuidanceMin * Centi,
                                     GuidanceMax * Centi)
                    /\ a.width = ClampedDimension(f["width"])
                    /\ a.height = ClampedDimension(f["height"])
              /\ surface = "audio" =>
                    \A key \in FloatKeys :
                        a.floats[key] =
                          IF f[key].t = "none" THEN FLOAT_PARAMS[key].default
                          ELSE Clamp(f[key].c, FLOAT_PARAMS[key].min_val,
                                     FLOAT_PARAMS[key].max_val)

(* a body that is not JSON or not an object, or (image) a numeric field     *)
(* holding a string that is no number                                       *)
Malformed ==
    \/ body.kind \in {"invalid", "other"}
    \/ /\ surface = "image" /\ body.kind = "object"
       /\ \E key \in {"width", "height", "steps", "guidance_scale"} :
             body.fields[key].t = "str" /\ parse_int(body.fields[key].s) = <<>>

(* C20 as claimed: a request that cannot be turned into a valid generation  *)
(* request is answered with a 4xx response and the orchestrator is not      *)
(* called; no exception ever leaves the handler.                            *)
C20_Rejected ==
    /\ unhandled = ""
    /\ (rpc = "done" /\ surface # "none" /\ Malformed) =>
          /\ http # <<>> /\ http[1].status \in 400..499
          /\ passed = <<>>

----------------------------------------------------------------------------
(* C24, C26, C27: the polling loop of ComfyUIClient.generate (SpecClient)    *)

C24_PollAfterSleep ==
    call'.history # call.history =>
        /\ pc = "poll"
        /\ call.sleeps = call.history + 1
        /\ call'.history = call.history + 1
        /\ call'.sleeps = call.sleeps

C24_SleepBeforePoll ==
    call'.sleeps # call.sleeps =>
        /\ gen.state = "running"
        /\ call.post.exc = "none"
        /\ call.sleeps = call.history
        /\ call'.sleeps = call.sleeps + 1

C24_SleepsMatchPolls ==
    /\ call.sleeps \in {call.history, call.history + 1}
    /\ (pc = "done") => call.sleeps = call.history

(* C24: every GET /history is sent right after exactly one sleep of the     *)
(* poll interval: the first one after one sleep since the job was enqueued, *)
(* two of them never without a sleep between, and no sleep starts once the  *)
(* call has returned or raised                                              *)
C24_SuspendedPolling ==
    []C24_SleepsMatchPolls /\ [][C24_PollAfterSleep /\ C24_SleepBeforePoll]_vars

C24_Witness ==
    /\ pc = "done" /\ gen.state = "returned"
    /\ call.history = 2 /\ call.sleeps = 2

(* C26: a history entry that has both an error status and output images     *)
(* makes the call fail with the job error and return no filenames           *)
C26_ErrorPrecedence ==
    (call.history > 0 /\ JobError(call.last) /\ HasOutputImage(call.last)) =>
        /\ pc = "done"
        /\ gen = Raised(JobFailedError)
        /\ gen.value = <<>>
        /\ net.jobs[Len(net.jobs)] = Job("failed", <<>>)

C26_Witness ==
    /\ call.history > 0 /\ JobError(call.last) /\ HasOutputImage(call.last)
    /\ gen.state = "raised"

PollStatusError ==
    call.history > 0 /\ call.last.exc = "none" /\ call.last.status \notin 200..299

C27_FailsWithStatus ==
    PollStatusError =>
        /\ pc = "done"
        /\ gen = Raised(ComfyUIGenerationError("historial", call.last.status, 0))
        /\ gen.exc # TimeoutError
        /\ call.pending = call.history - 1

C27_NothingAfter == PollStatusError => UNCHANGED <<call, net, gen, pc>>

(* C27: a GET /history answered with a status outside 2xx ends the call at  *)
(* once with a generation error that carries this status: the job is not    *)
(* pending, nothing more is requested, and the error is not the timeout     *)
C27_PollStatusError ==
    []C27_FailsWithStatus /\ [][C27_NothingAfter]_vars

C27_Witness ==
    /\ call.history = 2 /\ call.last.exc = "none" /\ call.last.status = 500
    /\ gen.state = "raised" /\ attempt < Budget(timeout) - 1

----------------------------------------------------------------------------
(* C23, C28, C29: the result of run_generation (Spec)                        *)

(* The answer at which the running generate call failed *)
FailedAnswer ==
    IF call.history > 0 THEN call.last
    ELSE IF call.post # NoPostResponse THEN call.post
    ELSE call.probe

(* The failures the backend causes: it is unreachable or times out at a     *)
(* request, is unavailable, rejects the job, reports a job error, does not  *)
(* finish in time, or a download fails                                      *)
BackendCaused ==
    IF gen.state = "raised"
    THEN \/ FailedAnswer.exc \in {"ConnectError", "TimeoutException"}
         \/ gen.exc.type \in {"ComfyUIUnavailableError", "ComfyUIGenerationError"}
    ELSE gen.state = "returned"

(* C23 as claimed: a failed run's error message has the type-name prefix    *)
(* exactly when the failure is not caused by the backend                    *)
C23_PrefixOnlyInternal ==
    Failed => (result[1].error[1].prefix # "" <=> ~BackendCaused)

C23_EnqueueUnreachable ==
    /\ Failed /\ gen.state = "raised"
    /\ call.probe = [exc |-> "none", status |-> 200]
    /\ call.post.exc = "ConnectError"
    /\ result[1].error[1].prefix = "ConnectError"

Is32Bit(s) == s[1] \in 0..(LimbBase - 1) /\ s[2] \in 0..(LimbBase - 1)

(* C28 as claimed: every seed written into a job graph or a record is in    *)
(* 0 .. 2^32 - 1                                                            *)
C28_SeedsInRange ==
    /\ \A n \in 1..Len(net.posts) : Is32Bit(net.posts[n].seed)
    /\ \A n \in 1..Len(generated_images) : Is32Bit(generated_images[n].seed)

C28_SeedPastRange ==
    /\ params.seed = <<SeedMax>> /\ Len(net.posts) = 2
    /\ net.posts[2].seed = <<LimbBase, 0>>

(* The POSTed job graph of the item the n-th GET /view belongs to *)
GraphOf(n) ==
    CHOOSE g \in Range(net.posts) : g.item = net.views[n].item

(* C29: a result has total_generated equal to the number of its records and *)
(* an error exactly when success is false, and every record has the         *)
(* filename it was downloaded by and the seed of the job graph that         *)
(* produced this file                                                       *)
C29_ResultConsistency ==
    /\ result # <<>> =>
          /\ result[1].total_generated = Len(result[1].images)
          /\ result[1].error # <<>> <=> ~result[1].success
          /\ result[1].success => result[1].images = generated_images
    /\ Len(generated_images) <= Len(net.views)
    /\ \A n \in 1..Len(generated_images) :
          /\ generated_images[n].filename = net.views[n].filename
          /\ \E g \in Range(net.posts) : g.item = net.views[n].item
          /\ generated_images[n].seed = GraphOf(n).seed

C29_Witness ==
    /\ Succeeded /\ result[1].total_generated = 3
    /\ params.batch_size = 2
    /\ result[1].images[1].seed # result[1].images[3].seed

----------------------------------------------------------------------------
(* C30: the torch.load patch of get_model (SpecModel)                        *)

Quiescent == \A t \in Threads : callers[t].pc = "idle"

(* C30 as claimed: once every get_model call has returned or raised,        *)
(* torch.load is the original function again                                *)
C30_PatchRestored ==
    (Quiescent /\ \E t \in Threads : callers[t].returned # <<>>) => torch_load = <<>>

(* Thread 1's wrapper outlives both calls *)
C30_WrapperLeft ==
    /\ Quiescent /\ device = "cpu"
    /\ torch_load = <<1>>
    /\ \A t \in Threads : Len(callers[t].returned) = 1

----------------------------------------------------------------------------
(* C22: the effect of download_image on the directory (SpecDownload)         *)

(* C22: a download whose GET /view is answered 2xx has made dest_dir if it  *)
(* was missing and written exactly the file dest_dir/filename, which holds  *)
(* the bytes of the answer, and returns its path; one answered with another *)
(* status raises the download error with this status, writes no file and    *)
(* leaves an existing file of that name as it was                           *)
C22_DownloadEffect ==
    (dlpc = "done" /\ view_response.exc = "none") =>
        IF view_response.status \in 200..299
        THEN /\ dl_outcome = <<[returned |-> dl_filename]>>
             /\ dest_dir.exists
             /\ dest_dir.content[dl_filename] = view_response.content
             /\ \A n \in Names \ {dl_filename} :
                    dest_dir.content[n] = dest_before.content[n]
        ELSE /\ dl_outcome =
                  <<[raised |-> ComfyUIGenerationError("descargar", view_response.status, 0)]>>
             /\ dest_dir.content = dest_before.content

C22_Witness ==
    /\ dlpc = "done" /\ view_response.exc = "none" /\ view_response.status = 200
    /\ ~dest_before.exists /\ dest_dir.exists
    /\ dest_dir.content[dl_filename] = MaxBytes

C22_WitnessFailed ==
    /\ dlpc = "done" /\ view_response.exc = "none" /\ view_response.status = 500
    /\ dest_before.content[dl_filename] # 0
    /\ dest_dir.content = dest_before.content

----------------------------------------------------------------------------
(* C21: GET /health (SpecHealth)                                             *)

ProbeOk == stats.exc = "none" /\ stats.status = 200

InventoryFailed ==
    object_info.exc # "none" \/ object_info.status \notin 200..299

(* The inventory answer on which building the sample raises *)
SampleRaises ==
    object_info.exc = "none" /\ object_info.status \in 200..299
    /\ object_info.body.kind = "number"

GotModel == got_model[1].exc = "" /\ got_model[1].model # 0

Healthy == health_response[1].status = 200 /\ health_response[1].ok

Unhealthy == health_response[1].status = 503 /\ ~health_response[1].ok

(* C21 as claimed: 200 with ok=true exactly when the probe returned 200     *)
(* (image) or get_model returned a model (audio), 503 with ok=false         *)
(* otherwise, also when the inventory query raises; the handler returns     *)
C21_HealthAsClaimed ==
    hpc = "done" =>
        /\ health_response # <<>>
        /\ Healthy \/ Unhealthy
        /\ service = "image" =>
              /\ Healthy <=> ProbeOk
              /\ object_info.exc # "none" => Unhealthy
        /\ service = "audio" => (Healthy <=> GotModel)

(* C21: 200 with ok=true exactly when the probe returned 200 and the        *)
(* checkpoint sample could be built, also when the inventory query raised   *)
(* or was refused, which gives an empty sample (image), or when get_model   *)
(* returned a model (audio); 503 with ok=false otherwise; the handler       *)
(* returns a response in every case                                         *)
C21_Health ==
    hpc = "done" =>
        /\ health_response # <<>>
        /\ Healthy \/ Unhealthy
        /\ service = "image" =>
              /\ Healthy <=> (ProbeOk /\ ~SampleRaises)
              /\ (ProbeOk /\ InventoryFailed) => health_response[1].sample = 0
        /\ service = "audio" => (Healthy <=> GotModel)

C21_Witness ==
    /\ hpc = "done" /\ service = "image" /\ ProbeOk
    /\ object_info.exc = "ConnectError" /\ Healthy

C21_WitnessAudio ==
    /\ hpc = "done" /\ service = "audio" /\ answered = 2
    /\ Healthy /\ got_model[1].model = 2 /\ loads = 2

C21_WitnessSample ==
    /\ hpc = "done" /\ service = "image" /\ ProbeOk /\ SampleRaises /\ Unhealthy

----------------------------------------------------------------------------
(* C25: texts past the maximum length (SpecLength)                           *)

ImageSurface == surface \in {"image", "image_tool"}

(* The text the caller gave, and the one the generation was called with *)
GivenText ==
    CASE surface = "image" -> body.fields.description.s
      [] surface = "image_tool" -> body.fields.prompt.s
      [] OTHER -> body.fields.text.s

PassedText == IF ImageSurface THEN passed[1].prompt ELSE passed[1].text

TextLimit == IF ImageSurface THEN PromptMax ELSE TextMax

(* A request that is in order but for the length of its text *)
OverLength ==
    /\ rpc # "received"
    /\ Len(strip(GivenText)) > TextLimit
    /\ IF ImageSurface THEN body.fields.steps = JNone ELSE body.fields.speed = JNone

Truncated ==
    /\ unhandled = "" /\ passed # <<>>
    /\ Len(PassedText) = TextLimit
    /\ PassedText = SubSeq(strip(GivenText), 1, TextLimit)

(* C25 as claimed: on the REST and on the tool surfaces a text longer than  *)
(* the maximum is cut to the maximum and the generation is called with it   *)
C25_TruncatedEverywhere == OverLength => Truncated

(* On the REST surfaces the claim holds *)
C25_RestTruncates == (OverLength /\ surface \in {"image", "audio"}) => Truncated

(* On the tool surfaces the request is refused *)
C25_ToolRejects ==
    (OverLength /\ surface \in {"image_tool", "audio_tool"}) =>
        (rpc = "done" /\ unhandled = "ValidationError" /\ passed = <<>>)

C25_ToolRejected ==
    /\ OverLength /\ surface = "audio_tool" /\ Len(GivenText) = TextMax + 1
    /\ unhandled = "ValidationError"

C25_RestTruncated ==
    /\ OverLength /\ surface = "audio" /\ Len(GivenText) = TextMax + 1
    /\ rpc = "done" /\ outcome = "ok" /\ Len(passed[1].text) = TextMax

====
